---- MODULE Spec2Model ----
(***************************************************************************)
(* Model of the localStorage DatabaseManager of src/src/database.ts:       *)
(* products, purchases, sales and printing plates, with the weighted       *)
(* average cost ledger and the printing-plate cost allocation.             *)
(*                                                                         *)
(* Numbers that the code divides (costs) are exact rationals <<n, d>> in   *)
(* lowest terms with d > 0; quantities, stocks and areas are integers.     *)
(* An optional field (size?, width_mm?, area_mm2?, date_printed?) is the   *)
(* empty sequence when absent and a one-element sequence when present.     *)
(* A size key is the sequence of its characters, so that toLowerCase and   *)
(* the <number>x<number> pattern are computed and not looked up.           *)
(* A Record<string, number> is the sequence of its entries in the order of *)
(* Object.keys.  The timestamps created_at, date_created and date are left *)
(* out: no operation reads them; date_printed is kept.                     *)
(* ret is the result of the last call, with the locals of printPlate that  *)
(* the properties speak of; printed_ok counts, per plate id, the calls of  *)
(* printPlate that returned true.                                          *)
(*                                                                         *)
(* The asynchronous DatabaseManager of src/src/database-kv.ts keeps the    *)
(* same tables as keys of a Redis store and awaits every read and write of *)
(* a whole table; calls holds, per caller, the call in progress: the await *)
(* it is at and its locals.                                                *)
(* Below the tables, getTable and setTable of database-kv.ts read and      *)
(* write whole values under a key of Redis and of localStorage; stores     *)
(* holds both key-value stores for the specifications of that layer.       *)
(***************************************************************************)
EXTENDS Integers, Sequences, FiniteSets, TLC

VARIABLES products, printing_plates, purchases, sales, ret, printed_ok, calls,
          reservations, stores

vars ==
    <<products, printing_plates, purchases, sales, ret, printed_ok, calls,
      reservations, stores>>

----------------------------------------------------------------------------
(* Bounds of the model.                                                    *)

MaxProducts == 3
MaxQty == 3
MaxPlateId == 2
MaxMoves == 1
MaxLedger == 3

\* products of a catalog of SpecArea
MaxSized == 2

\* purchases, and sales, of a behaviour of SpecRule
MaxRule == 1

\* reservations, and plain sales, of a behaviour of SpecReserve
MaxReservations == 2

----------------------------------------------------------------------------
(* Optional values and JavaScript truthiness of numbers.                   *)

None == <<>>

Some(x) == <<x>>

Truthy(o) == o # None /\ o[1] # 0

----------------------------------------------------------------------------
(* Exact rational arithmetic.                                              *)

Abs(n) == IF n < 0 THEN -n ELSE n

RECURSIVE GCD(_, _)
GCD(a, b) == IF b = 0 THEN a ELSE GCD(b, a % b)

Rat(n, d) ==
    LET g == GCD(Abs(n), Abs(d))
        s == IF d < 0 THEN -1 ELSE 1
    IN  <<(s * n) \div g, (s * d) \div g>>

RInt(n) == <<n, 1>>

RAdd(a, b) == Rat(a[1] * b[2] + b[1] * a[2], a[2] * b[2])

RMul(a, b) == Rat(a[1] * b[1], a[2] * b[2])

RDiv(a, b) == Rat(a[1] * b[2], a[2] * b[1])

RZero == RInt(0)

RECURSIVE RSum(_)
RSum(s) == IF s = <<>> THEN RZero ELSE RAdd(Head(s), RSum(Tail(s)))

RECURSIVE Sum(_)
Sum(s) == IF s = <<>> THEN 0 ELSE Head(s) + Sum(Tail(s))

Max(a, b) == IF a >= b THEN a ELSE b

----------------------------------------------------------------------------
(* Size keys: strings as sequences of characters.                          *)

Digits == {"0", "1", "2", "3", "4", "5", "6", "7", "8", "9"}

DigitValue(c) ==
    CASE c = "0" -> 0 [] c = "1" -> 1 [] c = "2" -> 2 [] c = "3" -> 3
      [] c = "4" -> 4 [] c = "5" -> 5 [] c = "6" -> 6 [] c = "7" -> 7
      [] c = "8" -> 8 [] c = "9" -> 9

LowerChar(c) ==
    CASE c = "C" -> "c" [] c = "H" -> "h" [] c = "I" -> "i" [] c = "O" -> "o"
      [] c = "G" -> "g" [] c = "R" -> "r" [] c = "A" -> "a" [] c = "N" -> "n"
      [] c = "D" -> "d" [] c = "E" -> "e" [] c = "X" -> "x" [] c = "F" -> "f"
      [] OTHER -> c

ToLowerCase(key) == [i \in DOMAIN key |-> LowerChar(key[i])]

KeyChico == <<"c", "h", "i", "c", "o">>

KeyGrande == <<"g", "r", "a", "n", "d", "e">>

KeyUnknown == <<"u", "n", "k", "n", "o", "w", "n">>

\* \d+ : a non-empty run of digits
IsDigits(s) == Len(s) > 0 /\ \A i \in DOMAIN s : s[i] \in Digits

\* \d+(?:\.\d+)?
IsNumber(s) ==
    \/ IsDigits(s)
    \/ \E p \in DOMAIN s :
          /\ s[p] = "."
          /\ IsDigits(SubSeq(s, 1, p - 1))
          /\ IsDigits(SubSeq(s, p + 1, Len(s)))

\* positions of the separator for which /^(\d+(?:\.\d+)?)x(\d+(?:\.\d+)?)$/i matches
DimSplits(key) ==
    {p \in DOMAIN key :
        /\ LowerChar(key[p]) = "x"
        /\ IsNumber(SubSeq(key, 1, p - 1))
        /\ IsNumber(SubSeq(key, p + 1, Len(key)))}

MatchDims(key) == DimSplits(key) # {}

RECURSIVE DigitsValue(_)
DigitsValue(s) ==
    IF s = <<>> THEN 0
    ELSE 10 * DigitsValue(SubSeq(s, 1, Len(s) - 1)) + DigitValue(s[Len(s)])

\* parseFloat of a group of the pattern; the keys of the model carry whole
\* numbers, whose value is that of the digits before an optional fraction
ParseFloat(s) ==
    IF IsDigits(s) THEN DigitsValue(s)
    ELSE LET p == CHOOSE q \in DOMAIN s : s[q] = "."
         IN  DigitsValue(SubSeq(s, 1, p - 1))

\* area of a key of the form <number>x<number>
DimWidth(key) ==
    LET p == CHOOSE q \in DimSplits(key) : TRUE
    IN  ParseFloat(SubSeq(key, 1, p - 1))

DimHeight(key) ==
    LET p == CHOOSE q \in DimSplits(key) : TRUE
    IN  ParseFloat(SubSeq(key, p + 1, Len(key)))

SmallMm == 50

LargeMm == 100

DefaultPlateCost == 18500

----------------------------------------------------------------------------
(* Tables.                                                                 *)

\* Math.max(...ids) + 1, or 1 for an empty table
RECURSIVE MaxId(_)
MaxId(table) ==
    IF table = <<>> THEN 0 ELSE Max(Head(table).id, MaxId(Tail(table)))

getNextId(table) == IF Len(table) > 0 THEN MaxId(table) + 1 ELSE 1

\* Array.prototype.findIndex on the id, 0 when there is none
FindIndex(table, id) ==
    IF \E i \in DOMAIN table : table[i].id = id
    THEN CHOOSE i \in DOMAIN table :
            table[i].id = id /\ \A j \in 1..(i - 1) : table[j].id # id
    ELSE 0

----------------------------------------------------------------------------
(* Products and the grouping by size key (printPlate, previewPrintingPlate) *)

StickerPrefix == <<"S", "t", "i", "c", "k", "e", "r", " ">>

\* p.size || 'unknown'
SizeKeyOf(p) == IF p.size # <<>> THEN p.size ELSE KeyUnknown

RECURSIVE IndicesWhere(_, _, _)
IndicesWhere(prods, key, i) ==
    IF i > Len(prods) THEN <<>>
    ELSE IF prods[i].category = "stickers" /\ SizeKeyOf(prods[i]) = key
         THEN <<i>> \o IndicesWhere(prods, key, i + 1)
         ELSE IndicesWhere(prods, key, i + 1)

\* productsBySize[key]: the positions, in table order, of the sticker
\* products whose size key is key
ProductsBySize(prods, key) == IndicesWhere(prods, key, 1)

\* it.area_mm2 || (it.width_mm && it.height_mm)
HasArea(p) ==
    Truthy(p.area_mm2) \/ (Truthy(p.width_mm) /\ Truthy(p.height_mm))

\* width_mm * height_mm before area_mm2
OwnArea_DimsFirst(p) ==
    IF Truthy(p.width_mm) /\ Truthy(p.height_mm)
    THEN Some(p.width_mm[1] * p.height_mm[1])
    ELSE p.area_mm2

\* item.area_mm2 ?? (item.width_mm && item.height_mm ? w * h : undefined)
OwnArea(p) ==
    IF p.area_mm2 # None THEN p.area_mm2
    ELSE IF Truthy(p.width_mm) /\ Truthy(p.height_mm)
         THEN Some(p.width_mm[1] * p.height_mm[1])
         ELSE None

\* the fallback of a key without a product area: the defaults of "chico"
\* and "grande", then the <number>x<number> form, else what it had
KeyArea(sizeKey, areaUnit) ==
    IF ToLowerCase(sizeKey) = KeyChico THEN Some(SmallMm * SmallMm)
    ELSE IF ToLowerCase(sizeKey) = KeyGrande THEN Some(LargeMm * LargeMm)
    ELSE IF MatchDims(sizeKey) THEN Some(DimWidth(sizeKey) * DimHeight(sizeKey))
    ELSE areaUnit

\* areaPerSize[sizeKey]
AreaPerSize(prods, sizeKey) ==
    LET items == ProductsBySize(prods, sizeKey)
        withArea == {k \in DOMAIN items : HasArea(prods[items[k]])}
        areaUnit ==
            IF withArea = {} THEN None
            ELSE LET k == CHOOSE x \in withArea : \A y \in withArea : x <= y
                 IN  OwnArea(prods[items[k]])
    IN  IF Truthy(areaUnit) THEN areaUnit ELSE KeyArea(sizeKey, areaUnit)

\* the product printPlate creates for a size key nobody is bound to
NewProduct(newId, sizeKey) ==
    LET m == MatchDims(sizeKey)
    IN  [id |-> newId,
         name |-> StickerPrefix \o sizeKey,
         category |-> "stickers",
         price |-> 0,
         stock |-> 0,
         cost |-> RZero,
         size |-> sizeKey,
         width_mm |-> IF m THEN Some(DimWidth(sizeKey)) ELSE None,
         height_mm |-> IF m THEN Some(DimHeight(sizeKey)) ELSE None,
         area_mm2 |-> IF m THEN Some(DimWidth(sizeKey) * DimHeight(sizeKey))
                      ELSE None]

\* countsBySize[sizeKey] || 0 for the j-th key of the plate
QtyForSize(counts, j) == counts[j].qty

\* a product for every key nobody is bound to, whatever its quantity
NeedsNewProduct_AnyQty(prods, counts, j) ==
    Len(ProductsBySize(prods, counts[j].key)) = 0

\* items.length === 0 && qtyForSize > 0
NeedsNewProduct(prods, counts, j) ==
    Len(ProductsBySize(prods, counts[j].key)) = 0 /\ QtyForSize(counts, j) > 0

\* the products table of printPlate after the loop over the keys: every
\* key without a product and with a positive quantity has pushed one, and
\* each of them got its id from the stored table
RECURSIVE WithNewProducts(_, _, _)
WithNewProducts(prods, counts, j) ==
    IF j > Len(counts) THEN <<>>
    ELSE (IF NeedsNewProduct(prods, counts, j)
          THEN <<NewProduct(getNextId(prods), counts[j].key)>>
          ELSE <<>>) \o WithNewProducts(prods, counts, j + 1)

ProductsAfterPush(prods, counts) == prods \o WithNewProducts(prods, counts, 1)

\* items of the j-th key in the second loop (positions in the pushed table)
ItemsOf(prods, counts, j) ==
    IF NeedsNewProduct(prods, counts, j)
    THEN <<Len(prods) + Len(WithNewProducts(prods, SubSeq(counts, 1, j), 1))>>
    ELSE ProductsBySize(prods, counts[j].key)

\* Math.floor(qtyForSize / items.length)
Base(q, n) == IF n > 0 THEN q \div n ELSE 0

Remainder(q, n) == IF n > 0 THEN q - Base(q, n) * n ELSE 0

\* AssignQty without the remainder: every item gets the base
AssignQty_NoRemainder(q, n, k) == Base(q, n)

\* AssignQty with the remainder given to the last items
AssignQty_RemainderLast(q, n, k) ==
    Base(q, n) + (IF k > n - Remainder(q, n) THEN 1 ELSE 0)

\* base + (remainder > 0 ? 1 : 0) for the k-th item, k from 1
AssignQty(q, n, k) == Base(q, n) + (IF Remainder(q, n) - (k - 1) > 0 THEN 1 ELSE 0)

\* area of an assigned product: its own, else the key's
\* the unit area of the key for every product, its own area ignored
AssignArea_KeyOnly(p, unitArea) == unitArea

AssignArea(p, unitArea) ==
    IF Truthy(OwnArea(p)) THEN OwnArea(p) ELSE unitArea

\* the entries the j-th key pushes on perProductAssign
AssignOfKey(prods, counts, j) ==
    LET items == ItemsOf(prods, counts, j)
        all == ProductsAfterPush(prods, counts)
        unitArea == AreaPerSize(prods, counts[j].key)
    IN  [k \in DOMAIN items |->
            [product |-> items[k],
             qty |-> AssignQty(QtyForSize(counts, j), Len(items), k),
             area |-> AssignArea(all[items[k]], unitArea)]]

RECURSIVE AssignFrom(_, _, _)
AssignFrom(prods, counts, j) ==
    IF j > Len(counts) THEN <<>>
    ELSE AssignOfKey(prods, counts, j) \o AssignFrom(prods, counts, j + 1)

PerProductAssign(prods, counts) == AssignFrom(prods, counts, 1)

\* totalArea: unitArea * qtyForSize over the keys with a truthy unit area
TotalArea(prods, counts) ==
    Sum([j \in DOMAIN counts |->
            IF Truthy(AreaPerSize(prods, counts[j].key))
            THEN AreaPerSize(prods, counts[j].key)[1] * QtyForSize(counts, j)
            ELSE 0])

TotalCount(counts) == Sum([j \in DOMAIN counts |-> QtyForSize(counts, j)])

\* AssignedUnitCost whose count mode forgets to divide by totalCount
AssignedUnitCost_Undivided(cost, totalArea, totalCount, area) ==
    IF totalArea > 0
    THEN IF Truthy(area)
         THEN RMul(RDiv(RInt(cost), RInt(totalArea)), RInt(area[1]))
         ELSE RDiv(RInt(cost), RInt(Max(1, totalCount)))
    ELSE IF totalCount > 0 THEN RInt(cost) ELSE RZero

\* AssignedUnitCost whose count mode divides by Math.max(1, totalCount)
AssignedUnitCost_AtLeastOne(cost, totalArea, totalCount, area) ==
    IF totalArea > 0
    THEN IF Truthy(area)
         THEN RMul(RDiv(RInt(cost), RInt(totalArea)), RInt(area[1]))
         ELSE RDiv(RInt(cost), RInt(Max(1, totalCount)))
    ELSE RDiv(RInt(cost), RInt(Max(1, totalCount)))

\* assignedUnitCost of an entry of perProductAssign
AssignedUnitCost(cost, totalArea, totalCount, area) ==
    IF totalArea > 0
    THEN IF Truthy(area)
         THEN RMul(RDiv(RInt(cost), RInt(totalArea)), RInt(area[1]))
         ELSE RDiv(RInt(cost), RInt(Max(1, totalCount)))
    ELSE IF totalCount > 0 THEN RDiv(RInt(cost), RInt(totalCount)) ELSE RZero

\* the weighted average of the stock a product had and the units added
\* the cost of the units added, whatever the stock was
WeightedCost_Overwrite(prevStock, prevCost, qty, unitCost) == unitCost

WeightedCost(prevStock, prevCost, qty, unitCost) ==
    IF prevStock > 0
    THEN RDiv(RAdd(RMul(RInt(prevStock), prevCost), RMul(RInt(qty), unitCost)),
              RInt(prevStock + qty))
    ELSE unitCost

\* stock and cost of a product that printPlate assigned qty units to
ApplyAssign(p, qty, unitCost) ==
    [p EXCEPT !.stock = p.stock + qty,
              !.cost = WeightedCost(p.stock, p.cost, qty, unitCost)]

\* perProductAssign with the unit cost each entry is given
CostedAssign(prods, plate) ==
    LET counts == plate.stickers_quantities
        assign == PerProductAssign(prods, counts)
        totalArea == TotalArea(prods, counts)
        totalCount == TotalCount(counts)
    IN  [k \in DOMAIN assign |->
            [product |-> assign[k].product,
             qty |-> assign[k].qty,
             area |-> assign[k].area,
             unitCost |-> AssignedUnitCost(plate.cost, totalArea, totalCount,
                                           assign[k].area)]]

\* perProductAssign, areaPerSize (in the order of the keys), totalArea and
\* totalCount of a printPlate call
Allocation(prods, plate) ==
    [perProductAssign |-> CostedAssign(prods, plate),
     areaPerSize |-> [j \in DOMAIN plate.stickers_quantities |->
                        AreaPerSize(prods, plate.stickers_quantities[j].key)],
     totalArea |-> TotalArea(prods, plate.stickers_quantities),
     totalCount |-> TotalCount(plate.stickers_quantities)]

\* the products table printPlate writes
PrintedProducts(prods, plate) ==
    LET all == ProductsAfterPush(prods, plate.stickers_quantities)
        costed == CostedAssign(prods, plate)
    IN  [i \in DOMAIN all |->
            IF \E k \in DOMAIN costed : costed[k].product = i
            THEN LET k == CHOOSE x \in DOMAIN costed : costed[x].product = i
                 IN  ApplyAssign(all[i], costed[k].qty, costed[k].unitCost)
            ELSE all[i]]

----------------------------------------------------------------------------
(* previewPrintingPlate: the report, computed from the stored tables.      *)

\* areaPerUnit of a key in the preview's loop
PreviewAreaPerUnit(prods, sizeKey) ==
    LET items == ProductsBySize(prods, sizeKey)
        withArea == {k \in DOMAIN items : HasArea(prods[items[k]])}
        found ==
            IF withArea = {} THEN None
            ELSE LET k == CHOOSE x \in withArea : \A y \in withArea : x <= y
                 IN  OwnArea(prods[items[k]])
    IN  IF Truthy(found) THEN found
        ELSE IF ToLowerCase(sizeKey) = KeyChico THEN Some(SmallMm * SmallMm)
        ELSE IF ToLowerCase(sizeKey) = KeyGrande THEN Some(LargeMm * LargeMm)
        ELSE IF MatchDims(sizeKey)
             THEN Some(DimWidth(sizeKey) * DimHeight(sizeKey))
        ELSE found

\* sizesInfo
SizesInfo(prods, counts) ==
    [j \in DOMAIN counts |->
        [sizeKey |-> counts[j].key,
         qty |-> counts[j].qty,
         area_mm2 |-> PreviewAreaPerUnit(prods, counts[j].key),
         products |-> [k \in DOMAIN ProductsBySize(prods, counts[j].key) |->
                          prods[ProductsBySize(prods, counts[j].key)[k]]]]]

\* it.area_mm2 || 0
AreaOrZero(o) == IF Truthy(o) THEN o[1] ELSE 0

\* the area of each size counted once, whatever its quantity
PreviewTotalArea_Unweighted(info) ==
    Sum([j \in DOMAIN info |-> AreaOrZero(info[j].area_mm2)])

PreviewTotalArea(info) ==
    Sum([j \in DOMAIN info |-> AreaOrZero(info[j].area_mm2) * info[j].qty])

PreviewItems(prods, plate) ==
    LET info == SizesInfo(prods, plate.stickers_quantities)
        totalArea == PreviewTotalArea(info)
        totalCount == Sum([j \in DOMAIN info |-> info[j].qty])
        costPerSticker ==
            IF totalCount > 0 THEN RDiv(RInt(plate.cost), RInt(totalCount))
            ELSE RZero
    IN  IF totalArea > 0
        THEN [j \in DOMAIN info |->
                LET unitArea == AreaOrZero(info[j].area_mm2)
                    unitCost ==
                        IF unitArea > 0
                        THEN RMul(RDiv(RInt(plate.cost), RInt(totalArea)),
                                  RInt(unitArea))
                        ELSE RZero
                IN  [sizeKey |-> info[j].sizeKey, qty |-> info[j].qty,
                     unitArea |-> Some(unitArea), unitCost |-> unitCost,
                     totalCost |-> RMul(unitCost, RInt(info[j].qty)),
                     products |-> info[j].products]]
        ELSE [j \in DOMAIN info |->
                [sizeKey |-> info[j].sizeKey, qty |-> info[j].qty,
                 unitArea |-> info[j].area_mm2, unitCost |-> costPerSticker,
                 totalCost |-> RMul(costPerSticker, RInt(info[j].qty)),
                 products |-> info[j].products]]

PreviewReport(prods, plate) ==
    [plate |-> [id |-> plate.id, name |-> plate.name, cost |-> plate.cost],
     items |-> PreviewItems(prods, plate),
     totalCost |-> plate.cost]

----------------------------------------------------------------------------
(* The result of the last call and the initial state.                      *)

NoReport == <<>>

NoAssign ==
    [perProductAssign |-> <<>>, areaPerSize |-> <<>>, totalArea |-> 0,
     totalCount |-> 0]

\* what a call returned (ok: true or a value, id: the id it gave, report:
\* the preview) and, for printPlate, the allocation it computed
Result(op, arg, ok, id, report) ==
    [op |-> op, arg |-> arg, ok |-> ok, id |-> id, report |-> report,
     alloc |-> NoAssign]

PlateIds == 1..MaxPlateId

\* who can have a call of database-kv.ts in progress
Callers == {"first", "second"}

\* no call in progress
Idle ==
    [op |-> "idle", pc |-> "idle", product_id |-> 0, quantity |-> 0,
     unit_cost |-> 0, plateId |-> 0, rows |-> <<>>, plate |-> <<>>,
     id |-> 0, ok |-> FALSE]

NoCalls == [c \in Callers |-> Idle]

\* the keys getTable and setTable are called with in the storage layer
StoreKeys == {"products", "sales"}

\* both key-value stores without a value under any key; client: there is a
\* Redis client (redis is not null)
NoStores ==
    [client |-> FALSE, redis |-> [t \in StoreKeys |-> None],
     localStorage |-> [t \in StoreKeys |-> None]]

----------------------------------------------------------------------------
(* Operations of DatabaseManager.                                          *)

\* the products table after addProduct
AddedProduct(prods, product) ==
    Append(prods, [product EXCEPT !.id = getNextId(prods)])

addProduct(product) ==
    LET id == getNextId(products)
    IN  /\ products' = AddedProduct(products, product)
        /\ ret' = Result("addProduct", 0, TRUE, id, NoReport)
        /\ UNCHANGED <<printing_plates, purchases, sales, printed_ok, calls, reservations, stores>>

\* PurchaseCost that takes the cost of the last purchase
PurchaseCost_LastCost(prevStock, prevCost, addedQty, addedUnitCost) ==
    addedUnitCost

\* PurchaseCost that keeps the cost when no unit is added
PurchaseCost_SkipEmpty(prevStock, prevCost, addedQty, addedUnitCost) ==
    IF addedQty = 0 THEN prevCost
    ELSE IF prevStock > 0
         THEN RDiv(RAdd(RMul(RInt(prevStock), prevCost),
                        RMul(RInt(addedQty), addedUnitCost)),
                   RInt(prevStock + addedQty))
         ELSE addedUnitCost

\* prod.cost of a purchase of addedQty units at addedUnitCost
PurchaseCost(prevStock, prevCost, addedQty, addedUnitCost) ==
    IF prevStock > 0
    THEN IF prevStock + addedQty > 0
         THEN RDiv(RAdd(RMul(RInt(prevStock), prevCost),
                        RMul(RInt(addedQty), addedUnitCost)),
                   RInt(prevStock + addedQty))
         ELSE prevCost
    ELSE addedUnitCost

\* the products table after the stock update of addPurchase
PurchasedProducts(prods, purchase) ==
    LET productIndex == FindIndex(prods, purchase.product_id)
    IN  IF productIndex # 0
        THEN [prods EXCEPT
                ![productIndex].cost =
                    PurchaseCost(prods[productIndex].stock,
                                 prods[productIndex].cost,
                                 purchase.quantity, RInt(purchase.unit_cost)),
                ![productIndex].stock =
                    prods[productIndex].stock + purchase.quantity]
        ELSE prods

addPurchase(purchase) ==
    LET id == getNextId(purchases)
    IN  /\ purchases' = Append(purchases, [purchase EXCEPT !.id = id])
        /\ products' = PurchasedProducts(products, purchase)
        /\ ret' = Result("addPurchase", purchase.product_id, TRUE, id, NoReport)
        /\ UNCHANGED <<printing_plates, sales, printed_ok, calls, reservations, stores>>

\* addSale that sells no more than the stock
SoldProducts_StockChecked(prods, sale) ==
    LET productIndex == FindIndex(prods, sale.product_id)
    IN  IF productIndex # 0 /\ prods[productIndex].stock >= sale.quantity
        THEN [prods EXCEPT ![productIndex].stock =
                              prods[productIndex].stock - sale.quantity]
        ELSE prods

\* the products table after the stock update of addSale
SoldProducts(prods, sale) ==
    LET productIndex == FindIndex(prods, sale.product_id)
    IN  IF productIndex # 0
        THEN [prods EXCEPT ![productIndex].stock =
                              prods[productIndex].stock - sale.quantity]
        ELSE prods

addSale(sale) ==
    LET id == getNextId(sales)
    IN  /\ sales' = Append(sales, [sale EXCEPT !.id = id])
        /\ products' = SoldProducts(products, sale)
        /\ ret' = Result("addSale", sale.product_id, TRUE, id, NoReport)
        /\ UNCHANGED <<printing_plates, purchases, printed_ok, calls, reservations, stores>>

addReservation(reservation) ==
    LET id == getNextId(reservations)
    IN  /\ reservations' = Append(reservations, [reservation EXCEPT !.id = id])
        /\ ret' = Result("addReservation", reservation.product_id, TRUE, id,
                         NoReport)
        /\ UNCHANGED <<products, printing_plates, purchases, sales, printed_ok,
                       calls, stores>>

\* completeReservation that completes a reservation whatever its status
IsPending_AnyStatus(table, reservationId) ==
    FindIndex(table, reservationId) # 0

\* the guard of completeReservation: the reservation is found and pending
IsPending(table, reservationId) ==
    /\ FindIndex(table, reservationId) # 0
    /\ table[FindIndex(table, reservationId)].status = "pending"

\* the sale completeReservation records: the remaining amount as the total,
\* the cost of the product as the unit cost
ReservationSale(reservation, product) ==
    [id |-> 0, product_id |-> reservation.product_id,
     quantity |-> reservation.quantity,
     unit_price |-> reservation.unit_price, unit_cost |-> product.cost,
     total |-> reservation.total - reservation.advance_payment,
     reservation_id |-> reservation.id]

completeReservation(reservationId) ==
    IF ~IsPending(reservations, reservationId)
    THEN /\ ret' = Result("completeReservation", reservationId, FALSE, 0,
                          NoReport)
         /\ UNCHANGED <<products, printing_plates, purchases, sales,
                        printed_ok, calls, reservations, stores>>
    ELSE LET index == FindIndex(reservations, reservationId)
             reservation == reservations[index]
             productIndex == FindIndex(products, reservation.product_id)
             sale == ReservationSale(reservation, products[productIndex])
         IN  /\ reservations' =
                    [reservations EXCEPT ![index].status = "completed"]
             /\ IF productIndex # 0
                THEN /\ sales' = Append(sales,
                                        [sale EXCEPT !.id = getNextId(sales)])
                     /\ products' = SoldProducts(products, sale)
                ELSE UNCHANGED <<products, sales>>
             /\ ret' = Result("completeReservation", reservationId, TRUE, 0,
                              NoReport)
             /\ UNCHANGED <<printing_plates, purchases, printed_ok, calls,
                            stores>>

\* stickers_quantities of the two call forms of createPrintingPlate: a map,
\* or the numbers of the small and of the large stickers
StickersQuantities(smallQuantityOrMap, largeQuantity) ==
    IF smallQuantityOrMap.isNumber
    THEN <<[key |-> KeyChico, qty |-> smallQuantityOrMap.number],
           [key |-> KeyGrande, qty |-> largeQuantity]>>
    ELSE smallQuantityOrMap.map

\* stickers_quantities[key] || 0
QuantityOf(counts, key) ==
    IF \E j \in DOMAIN counts : counts[j].key = key
    THEN (CHOOSE c \in {counts[j] : j \in DOMAIN counts} : c.key = key).qty
    ELSE 0

NewPlate(id, name, smallQuantityOrMap, largeQuantity, cost) ==
    LET stickers_quantities == StickersQuantities(smallQuantityOrMap, largeQuantity)
    IN  [id |-> id,
         name |-> name,
         cost |-> IF cost # None THEN cost[1] ELSE DefaultPlateCost,
         small_stickers_quantity |-> QuantityOf(stickers_quantities, KeyChico),
         large_stickers_quantity |-> QuantityOf(stickers_quantities, KeyGrande),
         stickers_quantities |-> stickers_quantities,
         is_printed |-> FALSE,
         date_printed |-> None]

createPrintingPlate(name, smallQuantityOrMap, largeQuantity, cost) ==
    LET id == getNextId(printing_plates)
    IN  /\ id <= MaxPlateId
        /\ printing_plates' =
              Append(printing_plates,
                     NewPlate(id, name, smallQuantityOrMap, largeQuantity, cost))
        /\ ret' = Result("createPrintingPlate", 0, TRUE, id, NoReport)
        /\ UNCHANGED <<products, purchases, sales, printed_ok, calls, reservations, stores>>

\* MarkPrinted that sets the date and forgets is_printed
MarkPrinted_DateOnly(plate, now) == [plate EXCEPT !.date_printed = Some(now)]

\* the plate as printPlate marks it
MarkPrinted(plate, now) ==
    [plate EXCEPT !.is_printed = TRUE, !.date_printed = Some(now)]

\* printPlate that checks only that the plate exists
printPlate_NoPrintedCheck(plateId, now) ==
    LET index == FindIndex(printing_plates, plateId)
    IN  IF index = 0
        THEN /\ ret' = Result("printPlate", plateId, FALSE, 0, NoReport)
             /\ UNCHANGED <<products, printing_plates, purchases, sales, printed_ok, calls, reservations, stores>>
        ELSE LET plate == printing_plates[index]
             IN  /\ printing_plates' =
                       [printing_plates EXCEPT ![index] = MarkPrinted(plate, now)]
                 /\ products' = PrintedProducts(products, plate)
                 /\ printed_ok' = [printed_ok EXCEPT ![plateId] = @ + 1]
                 /\ ret' = [Result("printPlate", plateId, TRUE, 0, NoReport)
                               EXCEPT !.alloc = Allocation(products, plate)]
                 /\ UNCHANGED <<purchases, sales, calls, reservations, stores>>

printPlate(plateId, now) ==
    LET index == FindIndex(printing_plates, plateId)
    IN  IF index = 0 \/ printing_plates[index].is_printed
        THEN /\ ret' = Result("printPlate", plateId, FALSE, 0, NoReport)
             /\ UNCHANGED <<products, printing_plates, purchases, sales, printed_ok, calls, reservations, stores>>
        ELSE LET plate == printing_plates[index]
             IN  /\ printing_plates' =
                       [printing_plates EXCEPT ![index] = MarkPrinted(plate, now)]
                 /\ products' = PrintedProducts(products, plate)
                 /\ printed_ok' = [printed_ok EXCEPT ![plateId] = @ + 1]
                 /\ ret' = [Result("printPlate", plateId, TRUE, 0, NoReport)
                               EXCEPT !.alloc = Allocation(products, plate)]
                 /\ UNCHANGED <<purchases, sales, calls, reservations, stores>>

\* previewPrintingPlate that stores the products it would create
previewPrintingPlate_Pushing(plateId) ==
    LET index == FindIndex(printing_plates, plateId)
    IN  /\ ret' = IF index = 0
                  THEN Result("previewPrintingPlate", plateId, FALSE, 0, NoReport)
                  ELSE Result("previewPrintingPlate", plateId, TRUE, 0,
                              PreviewReport(products, printing_plates[index]))
        /\ products' =
              IF index = 0 THEN products
              ELSE ProductsAfterPush(products,
                                     printing_plates[index].stickers_quantities)
        /\ UNCHANGED <<printing_plates, purchases, sales, printed_ok, calls, reservations, stores>>

previewPrintingPlate(plateId) ==
    LET index == FindIndex(printing_plates, plateId)
    IN  /\ ret' = IF index = 0
                  THEN Result("previewPrintingPlate", plateId, FALSE, 0, NoReport)
                  ELSE Result("previewPrintingPlate", plateId, TRUE, 0,
                              PreviewReport(products, printing_plates[index]))
        /\ UNCHANGED <<products, printing_plates, purchases, sales, printed_ok, calls, reservations, stores>>

\* plates.splice(index, 1)
Splice(table, index) ==
    SubSeq(table, 1, index - 1) \o SubSeq(table, index + 1, Len(table))

\* deletePrintingPlate that checks only that the plate exists
deletePrintingPlate_NoPrintedCheck(plateId) ==
    LET index == FindIndex(printing_plates, plateId)
    IN  IF index = 0
        THEN /\ ret' = Result("deletePrintingPlate", plateId, FALSE, 0, NoReport)
             /\ UNCHANGED <<products, printing_plates, purchases, sales, printed_ok, calls, reservations, stores>>
        ELSE /\ printing_plates' = Splice(printing_plates, index)
             /\ ret' = Result("deletePrintingPlate", plateId, TRUE, 0, NoReport)
             /\ UNCHANGED <<products, purchases, sales, printed_ok, calls, reservations, stores>>

deletePrintingPlate(plateId) ==
    LET index == FindIndex(printing_plates, plateId)
    IN  IF index = 0 \/ printing_plates[index].is_printed
        THEN /\ ret' = Result("deletePrintingPlate", plateId, FALSE, 0, NoReport)
             /\ UNCHANGED <<products, printing_plates, purchases, sales, printed_ok, calls, reservations, stores>>
        ELSE /\ printing_plates' = Splice(printing_plates, index)
             /\ ret' = Result("deletePrintingPlate", plateId, TRUE, 0, NoReport)
             /\ UNCHANGED <<products, purchases, sales, printed_ok, calls, reservations, stores>>

----------------------------------------------------------------------------
(* Inputs of the calls.                                                    *)

Key2x3 == <<"2", "x", "3">>

KeyFoo == <<"f", "o", "o">>

Chars(str) ==
    CASE str = "Sticker Chico" -> StickerPrefix \o <<"C", "h", "i", "c", "o">>
      [] str = "Sticker Mini" -> StickerPrefix \o <<"M", "i", "n", "i">>
      [] str = "Sticker Foo" -> StickerPrefix \o <<"F", "o", "o">>
      [] str = "Sticker Grande" -> StickerPrefix \o <<"G", "r", "a", "n", "d", "e">>
      [] str = "Totebag" -> <<"T", "o", "t", "e", "b", "a", "g">>
      [] str = "Remera" -> <<"R", "e", "m", "e", "r", "a">>

ProductInput(name, category, price, stock, cost, size, area_mm2) ==
    [id |-> 0, name |-> Chars(name), category |-> category, price |-> price,
     stock |-> stock, cost |-> RInt(cost), size |-> size,
     width_mm |-> None, height_mm |-> None, area_mm2 |-> area_mm2]

StickerChico == ProductInput("Sticker Chico", "stickers", 300, 0, 0, KeyChico, None)

StickerMini == ProductInput("Sticker Mini", "stickers", 300, 1, 2, KeyChico, Some(4))

StickerFoo == ProductInput("Sticker Foo", "stickers", 300, 0, 0, KeyFoo, None)

Totebag == ProductInput("Totebag", "totebags", 4000, 2, 3, KeyChico, None)

PlateName == "Plancha"

Dates == {"2024-01-01", "2024-01-02"}

MapArg(map) == [isNumber |-> FALSE, number |-> 0, map |-> map]

NumberArg(n) == [isNumber |-> TRUE, number |-> n, map |-> <<>>]

PurchaseInput(product_id, quantity, unit_cost) ==
    [id |-> 0, product_id |-> product_id, quantity |-> quantity,
     unit_cost |-> unit_cost, total |-> quantity * unit_cost]

SaleInput(product_id, quantity, unit_price) ==
    [id |-> 0, product_id |-> product_id, quantity |-> quantity,
     unit_price |-> unit_price, unit_cost |-> 0,
     total |-> quantity * unit_price]

----------------------------------------------------------------------------
(* Spec: the plate operations, purchases and sales on a catalog of one     *)
(* sticker product and one tote bag, as two addProduct calls leave it.     *)

Init ==
    /\ products = AddedProduct(AddedProduct(<<>>, StickerChico), Totebag)
    /\ printing_plates = <<>>
    /\ purchases = <<>>
    /\ sales = <<>>
    /\ ret = Result("new", 0, TRUE, 0, NoReport)
    /\ printed_ok = [id \in PlateIds |-> 0]
    /\ calls = NoCalls
    /\ reservations = <<>>
    /\ stores = NoStores

PlateMaps ==
    {<<[key |-> Key2x3, qty |-> 1], [key |-> KeyFoo, qty |-> 2]>>}

AddPurchase ==
    /\ Len(purchases) + Len(sales) < MaxMoves
    /\ \E product_id \in 1..2 :
          addPurchase(PurchaseInput(product_id, 3 - product_id, 3))

AddSale ==
    /\ Len(purchases) + Len(sales) < MaxMoves
    /\ addSale(SaleInput(1, 1, 5))

CreatePrintingPlate ==
    \/ \E map \in PlateMaps :
          createPrintingPlate(PlateName, MapArg(map), 0, Some(12))
    \/ createPrintingPlate(PlateName, NumberArg(2), 1, None)

PrintPlate == \E plateId \in PlateIds, now \in Dates : printPlate(plateId, now)

PreviewPrintingPlate == \E plateId \in PlateIds : previewPrintingPlate(plateId)

DeletePrintingPlate == \E plateId \in PlateIds : deletePrintingPlate(plateId)

Next ==
    \/ AddPurchase
    \/ AddSale
    \/ CreatePrintingPlate
    \/ PrintPlate
    \/ PreviewPrintingPlate
    \/ DeletePrintingPlate

Spec == Init /\ [][Next]_vars

----------------------------------------------------------------------------
(* SpecPlate: one pending plate over every catalog of up to MaxProducts    *)
(* products, as addProduct and createPrintingPlate leave them; then        *)
(* printPlate and previewPrintingPlate.                                    *)

PlateCatalogInputs == {StickerChico, StickerMini, StickerFoo, Totebag}

RECURSIVE AddedAll(_, _)
AddedAll(prods, inputs) ==
    IF inputs = <<>> THEN prods
    ELSE AddedAll(AddedProduct(prods, Head(inputs)), Tail(inputs))

Catalogs ==
    {AddedAll(<<>>, inputs) :
        inputs \in UNION {[1..n -> PlateCatalogInputs] : n \in 0..MaxProducts}}

PlateKeys == {KeyChico, Key2x3, KeyFoo}

PlateKeyPairs == {<<KeyChico, Key2x3>>, <<Key2x3, KeyFoo>>, <<KeyFoo, KeyChico>>}

PlateQuantityMaps ==
    {<<[key |-> k, qty |-> q]>> : k \in PlateKeys, q \in 0..MaxQty}
    \cup {<<[key |-> k[1], qty |-> q[1]], [key |-> k[2], qty |-> q[2]]>> :
            k \in PlateKeyPairs, q \in (0..MaxQty) \X (0..MaxQty)}
    \cup {<<[key |-> KeyChico, qty |-> 10]>>}

InitPlate ==
    /\ products \in Catalogs
    /\ \E map \in PlateQuantityMaps :
          printing_plates = <<NewPlate(1, PlateName, MapArg(map), 0, Some(12))>>
    /\ purchases = <<>>
    /\ sales = <<>>
    /\ ret = Result("createPrintingPlate", 0, TRUE, 1, NoReport)
    /\ printed_ok = [id \in PlateIds |-> 0]
    /\ calls = NoCalls
    /\ reservations = <<>>
    /\ stores = NoStores

PrintFirstPlate == printPlate(1, "2024-01-01")

PreviewFirstPlate == previewPrintingPlate(1)

NextPlate == PrintFirstPlate \/ PreviewFirstPlate

SpecPlate == InitPlate /\ [][NextPlate]_vars

----------------------------------------------------------------------------
(* SpecLedger: purchases and sales of two products; the first starts with  *)
(* no stock and an old cost, the second with stock.                        *)

Remera == ProductInput("Remera", "remeras", 3500, 0, 7, <<"m">>, None)

LedgerQuantities == 0..2

LedgerCosts == {2, 5}

InitLedger ==
    /\ products = AddedAll(<<>>, <<Remera, Totebag>>)
    /\ printing_plates = <<>>
    /\ purchases = <<>>
    /\ sales = <<>>
    /\ ret = Result("addProduct", 0, TRUE, 2, NoReport)
    /\ printed_ok = [id \in PlateIds |-> 0]
    /\ calls = NoCalls
    /\ reservations = <<>>
    /\ stores = NoStores

LedgerPurchase ==
    /\ Len(purchases) + Len(sales) < MaxLedger
    /\ \E product_id \in 1..2, quantity \in LedgerQuantities,
          unit_cost \in LedgerCosts :
          addPurchase(PurchaseInput(product_id, quantity, unit_cost))

LedgerSale ==
    /\ Len(purchases) + Len(sales) < MaxLedger
    /\ \E product_id \in 1..2 : addSale(SaleInput(product_id, 1, 5))

NextLedger == LedgerPurchase \/ LedgerSale

SpecLedger == InitLedger /\ [][NextLedger]_vars

----------------------------------------------------------------------------
(* SpecThrow: Spec, with localStorage.setItem free to throw in printPlate. *)
(* setTable has no try/catch and printPlate has none around it, so the     *)
(* exception leaves printPlate at the write that threw: the tables written *)
(* before it keep their new contents, the ones after it their old ones.    *)

StoreTables == {"printing_plates", "products"}

\* printPlate on a pending plate, setTable(table, ...) throwing
printPlateThrows(plateId, now, table) ==
    LET index == FindIndex(printing_plates, plateId)
    IN  /\ index # 0
        /\ ~printing_plates[index].is_printed
        /\ printing_plates' =
              IF table = "printing_plates" THEN printing_plates
              ELSE [printing_plates EXCEPT
                       ![index] = MarkPrinted(printing_plates[index], now)]
        /\ ret' = Result("printPlate throws", plateId, FALSE, 0, NoReport)
        /\ UNCHANGED <<products, purchases, sales, printed_ok, calls, reservations, stores>>

PrintPlateThrows ==
    \E plateId \in PlateIds, now \in Dates, table \in StoreTables :
        printPlateThrows(plateId, now, table)

NextThrow ==
    \/ AddPurchase
    \/ AddSale
    \/ CreatePrintingPlate
    \/ PrintPlate
    \/ PrintPlateThrows
    \/ PreviewPrintingPlate
    \/ DeletePrintingPlate

SpecThrow == Init /\ [][NextThrow]_vars

----------------------------------------------------------------------------
(* SpecArea: one pending plate with one size key over every catalog of up  *)
(* to MaxSized products that carry, or lack, width_mm, height_mm and       *)
(* area_mm2; then printPlate and previewPrintingPlate. Dimensions and      *)
(* areas are positive numbers when present, as those of the sample data.   *)

KeyChicoCapital == <<"C", "h", "i", "c", "o">>

KeyGrandeUpper == <<"G", "R", "A", "N", "D", "E">>

Key2X3Upper == <<"2", "X", "3">>

Sized(product, size, width_mm, height_mm, area_mm2) ==
    [product EXCEPT !.size = size, !.width_mm = width_mm,
                    !.height_mm = height_mm, !.area_mm2 = area_mm2]

SizedInputs ==
    {Sized(StickerChico, KeyChico, None, None, None),
     Sized(StickerChico, KeyChico, Some(2), None, None),
     Sized(StickerChico, KeyChico, Some(2), Some(5), None),
     Sized(StickerChico, KeyChico, None, None, Some(4)),
     Sized(StickerChico, KeyChico, Some(2), Some(5), Some(7)),
     Sized(StickerChico, KeyChicoCapital, None, None, Some(9)),
     Sized(StickerFoo, KeyFoo, None, None, None),
     Sized(StickerFoo, KeyFoo, Some(3), Some(3), Some(8)),
     Sized(StickerFoo, Key2x3, None, None, None),
     Sized(StickerFoo, Key2x3, None, None, Some(4)),
     Sized(Totebag, KeyChico, Some(1), Some(1), Some(11))}

SizedCatalogs ==
    {AddedAll(<<>>, inputs) :
        inputs \in UNION {[1..n -> SizedInputs] : n \in 0..MaxSized}}

AreaKeys ==
    {KeyChico, KeyChicoCapital, KeyGrandeUpper, Key2x3, Key2X3Upper, KeyFoo}

InitArea ==
    /\ products \in SizedCatalogs
    /\ \E k \in AreaKeys :
          printing_plates =
             <<NewPlate(1, PlateName, MapArg(<<[key |-> k, qty |-> 2]>>), 0,
                        Some(12))>>
    /\ purchases = <<>>
    /\ sales = <<>>
    /\ ret = Result("createPrintingPlate", 0, TRUE, 1, NoReport)
    /\ printed_ok = [id \in PlateIds |-> 0]
    /\ calls = NoCalls
    /\ reservations = <<>>
    /\ stores = NoStores

NextArea == PrintFirstPlate \/ PreviewFirstPlate

SpecArea == InitArea /\ [][NextArea]_vars

----------------------------------------------------------------------------
(* SpecRule: purchases, sales and the printing of one plate on the same    *)
(* two sticker products, one without stock and one with stock; a sale      *)
(* leaves the first with a negative stock.                                 *)

RuleQuantities == {0, 2}

RuleMaps ==
    {<<[key |-> KeyChico, qty |-> q]>> : q \in 0..MaxQty}
    \cup {<<[key |-> KeyChico, qty |-> q], [key |-> KeyFoo, qty |-> 1]>> :
            q \in 0..MaxQty}

InitRule ==
    /\ products = AddedAll(<<>>, <<StickerChico, StickerMini>>)
    /\ \E map \in RuleMaps :
          printing_plates = <<NewPlate(1, PlateName, MapArg(map), 0, Some(12))>>
    /\ purchases = <<>>
    /\ sales = <<>>
    /\ ret = Result("createPrintingPlate", 0, TRUE, 1, NoReport)
    /\ printed_ok = [id \in PlateIds |-> 0]
    /\ calls = NoCalls
    /\ reservations = <<>>
    /\ stores = NoStores

RulePurchase ==
    /\ Len(purchases) < MaxRule
    /\ \E product_id \in 1..2, quantity \in RuleQuantities,
          unit_cost \in LedgerCosts :
          addPurchase(PurchaseInput(product_id, quantity, unit_cost))

RuleSale ==
    /\ Len(sales) < MaxRule
    /\ addSale(SaleInput(1, 1, 5))

NextRule == RulePurchase \/ RuleSale \/ PrintFirstPlate

SpecRule == InitRule /\ [][NextRule]_vars

----------------------------------------------------------------------------
(* SpecSample: one pending plate of 0, 50 or 100 small and large stickers, *)
(* at the default cost or at cost 0, over every catalog of up to MaxSized  *)
(* of the sample stickers, a sticker with an area of its own and a tote    *)
(* bag; then printPlate and previewPrintingPlate.                          *)

StickerGrande ==
    ProductInput("Sticker Grande", "stickers", 500, 0, 0, KeyGrande, None)

StickerWide == Sized(StickerChico, KeyChico, Some(2), Some(5), None)

SampleInputs == {StickerChico, StickerGrande, StickerMini, StickerWide, Totebag}

SampleCatalogs ==
    {AddedAll(<<>>, inputs) :
        inputs \in UNION {[1..n -> SampleInputs] : n \in 0..MaxSized}}

SampleQuantities == {0, 50, 100}

SampleCosts == {None, Some(0)}

SamplePlates ==
    {NewPlate(1, PlateName, NumberArg(small), large, cost) :
        small \in SampleQuantities, large \in SampleQuantities,
        cost \in SampleCosts}
    \cup {NewPlate(1, PlateName,
                   MapArg(<<[key |-> KeyChico, qty |-> 100],
                            [key |-> KeyFoo, qty |-> 50]>>), 0, cost) :
            cost \in SampleCosts}

InitSample ==
    /\ products \in SampleCatalogs
    /\ \E plate \in SamplePlates : printing_plates = <<plate>>
    /\ purchases = <<>>
    /\ sales = <<>>
    /\ ret = Result("createPrintingPlate", 0, TRUE, 1, NoReport)
    /\ printed_ok = [id \in PlateIds |-> 0]
    /\ calls = NoCalls
    /\ reservations = <<>>
    /\ stores = NoStores

NextSample == PrintFirstPlate \/ PreviewFirstPlate

SpecSample == InitSample /\ [][NextSample]_vars

----------------------------------------------------------------------------
(* The asynchronous DatabaseManager of database-kv.ts (the Redis one).     *)
(* Every await of getTable or setTable is a step of its own: the store     *)
(* serves one request at a time and the code between two awaits runs       *)
(* without interruption, so a step is the request the store serves         *)
(* together with the code that runs on its answer up to the next await.    *)
(* The store answers every request; its failures are not part of SpecKv.   *)

KvPlateCost == 18000

NameChico == <<"C", "h", "i", "c", "o">>

NameGrande == <<"G", "r", "a", "n", "d", "e">>

\* name.includes(part)
Includes(name, part) ==
    \E i \in 0..(Len(name) - Len(part)) :
        SubSeq(name, i + 1, i + Len(part)) = part

\* the plate createPrintingPlate(name, smallQuantity, largeQuantity) stores
KvNewPlate(id, name, smallQuantity, largeQuantity) ==
    [id |-> id, name |-> name, cost |-> KvPlateCost,
     small_stickers_quantity |-> smallQuantity,
     large_stickers_quantity |-> largeQuantity,
     is_printed |-> FALSE, date_printed |-> None]

\* addPurchase that leaves the stock as it is
KvPurchasedProducts_NoStock(prods, product_id, quantity) == prods

\* products after the stock update of addPurchase
KvPurchasedProducts(prods, product_id, quantity) ==
    LET productIndex == FindIndex(prods, product_id)
    IN  IF productIndex # 0
        THEN [prods EXCEPT ![productIndex].stock = @ + quantity]
        ELSE prods

\* the stickers whose name includes part, as filter finds them
KvStickers(prods, part) ==
    {i \in DOMAIN prods :
        prods[i].category = "stickers" /\ Includes(prods[i].name, part)}

\* products after the two forEach of printPlate
KvPrintedProducts(prods, plate) ==
    LET smallStickers == KvStickers(prods, NameChico)
        largeStickers == KvStickers(prods, NameGrande)
        totalStickers ==
            plate.small_stickers_quantity + plate.large_stickers_quantity
        costPerSticker ==
            IF totalStickers > 0
            THEN RDiv(RInt(plate.cost), RInt(totalStickers))
            ELSE RZero
        afterSmall ==
            [i \in DOMAIN prods |->
                IF i \in smallStickers
                THEN [prods[i] EXCEPT
                         !.stock = @ + (plate.small_stickers_quantity
                                           \div Cardinality(smallStickers)),
                         !.cost = costPerSticker]
                ELSE prods[i]]
    IN  [i \in DOMAIN prods |->
            IF i \in largeStickers
            THEN [afterSmall[i] EXCEPT
                     !.stock = @ + (plate.large_stickers_quantity
                                       \div Cardinality(largeStickers)),
                     !.cost = costPerSticker]
            ELSE afterSmall[i]]

\* a caller calls addPurchase or printPlate; the call runs up to its first
\* await
kvCall(c, op, product_id, quantity, unit_cost, plateId) ==
    /\ calls[c].pc = "idle"
    /\ calls' = [calls EXCEPT ![c] =
                    [Idle EXCEPT
                        !.op = op,
                        !.pc = IF op = "addPurchase"
                               THEN "getTable purchases"
                               ELSE "getTable printing_plates",
                        !.product_id = product_id,
                        !.quantity = quantity,
                        !.unit_cost = unit_cost,
                        !.plateId = plateId]]
    /\ UNCHANGED <<products, printing_plates, purchases, sales, ret, printed_ok, reservations, stores>>

\* addPurchase of database-kv.ts, from one await to the next
kvAddPurchase(c) ==
    LET call == calls[c]
    IN  /\ call.op = "addPurchase"
        /\ \/ /\ call.pc = "getTable purchases"
              /\ calls' = [calls EXCEPT ![c].rows = purchases,
                                        ![c].pc = "getNextId purchases"]
              /\ UNCHANGED <<products, purchases>>
           \/ /\ call.pc = "getNextId purchases"
              /\ calls' = [calls EXCEPT ![c].id = getNextId(purchases),
                                        ![c].pc = "setTable purchases"]
              /\ UNCHANGED <<products, purchases>>
           \/ /\ call.pc = "setTable purchases"
              /\ purchases' =
                    Append(call.rows,
                           [PurchaseInput(call.product_id, call.quantity,
                                          call.unit_cost)
                               EXCEPT !.id = call.id])
              /\ calls' = [calls EXCEPT ![c].pc = "getTable products"]
              /\ UNCHANGED products
           \/ /\ call.pc = "getTable products"
              /\ calls' =
                    IF FindIndex(products, call.product_id) # 0
                    THEN [calls EXCEPT
                             ![c].rows = KvPurchasedProducts(
                                            products, call.product_id,
                                            call.quantity),
                             ![c].pc = "setTable products"]
                    ELSE [calls EXCEPT ![c].pc = "returned", ![c].ok = TRUE]
              /\ UNCHANGED <<products, purchases>>
           \/ /\ call.pc = "setTable products"
              /\ products' = call.rows
              /\ calls' = [calls EXCEPT ![c].pc = "returned", ![c].ok = TRUE]
              /\ UNCHANGED purchases
        /\ UNCHANGED <<printing_plates, sales, ret, printed_ok, reservations, stores>>


\* printPlate of database-kv.ts, from one await to the next
kvPrintPlate(c, now) ==
    LET call == calls[c]
        index == FindIndex(printing_plates, call.plateId)
    IN  /\ call.op = "printPlate"
        /\ \/ /\ call.pc = "getTable printing_plates"
              /\ calls' =
                    IF index = 0 \/ printing_plates[index].is_printed
                    THEN [calls EXCEPT ![c].pc = "returned", ![c].ok = FALSE]
                    ELSE [calls EXCEPT
                             ![c].plate =
                                <<MarkPrinted(printing_plates[index], now)>>,
                             ![c].rows =
                                [printing_plates EXCEPT
                                    ![index] =
                                       MarkPrinted(printing_plates[index], now)],
                             ![c].pc = "setTable printing_plates"]
              /\ UNCHANGED <<products, printing_plates, printed_ok>>
           \/ /\ call.pc = "setTable printing_plates"
              /\ printing_plates' = call.rows
              /\ calls' = [calls EXCEPT ![c].pc = "getTable products"]
              /\ UNCHANGED <<products, printed_ok>>
           \/ /\ call.pc = "getTable products"
              /\ calls' = [calls EXCEPT
                              ![c].rows = KvPrintedProducts(products,
                                                            call.plate[1]),
                              ![c].pc = "setTable products"]
              /\ UNCHANGED <<products, printing_plates, printed_ok>>
           \/ /\ call.pc = "setTable products"
              /\ products' = call.rows
              /\ calls' = [calls EXCEPT ![c].pc = "returned", ![c].ok = TRUE]
              /\ printed_ok' = [printed_ok EXCEPT ![call.plateId] = @ + 1]
              /\ UNCHANGED printing_plates
        /\ UNCHANGED <<purchases, sales, ret, reservations, stores>>

----------------------------------------------------------------------------
(* SpecKv: two callers, each with one call of addPurchase or printPlate of *)
(* database-kv.ts, on a store with one sticker product, one tote bag and   *)
(* one pending plate.                                                      *)

KvQuantities == {1, 2}

InitKv ==
    /\ products = AddedAll(<<>>, <<StickerChico, Totebag>>)
    /\ printing_plates = <<KvNewPlate(1, PlateName, 2, 1)>>
    /\ purchases = <<>>
    /\ sales = <<>>
    /\ ret = Result("createPrintingPlate", 0, TRUE, 1, NoReport)
    /\ printed_ok = [id \in PlateIds |-> 0]
    /\ calls = NoCalls
    /\ reservations = <<>>
    /\ stores = NoStores

KvCall ==
    \E c \in Callers :
        \/ \E quantity \in KvQuantities :
              kvCall(c, "addPurchase", 1, quantity, 3, 0)
        \/ kvCall(c, "printPlate", 0, 0, 0, 1)

KvAddPurchase == \E c \in Callers : kvAddPurchase(c)

KvPrintPlate == \E c \in Callers, now \in Dates : kvPrintPlate(c, now)

NextKv == KvCall \/ KvAddPurchase \/ KvPrintPlate

SpecKv == InitKv /\ [][NextKv]_vars

----------------------------------------------------------------------------
(* SpecKvOne: one caller with one call of addPurchase or printPlate of     *)
(* database-kv.ts, on every store of up to MaxSized sample products and    *)
(* one pending plate of up to MaxQty small and large stickers.             *)

KvInputs == {StickerChico, StickerGrande, StickerMini, Totebag}

KvCatalogs ==
    {AddedAll(<<>>, inputs) :
        inputs \in UNION {[1..n -> KvInputs] : n \in 0..MaxSized}}

InitKvOne ==
    /\ products \in KvCatalogs
    /\ \E smallQuantity \in 0..MaxQty, largeQuantity \in 0..MaxQty :
          printing_plates =
             <<KvNewPlate(1, PlateName, smallQuantity, largeQuantity)>>
    /\ purchases = <<>>
    /\ sales = <<>>
    /\ ret = Result("createPrintingPlate", 0, TRUE, 1, NoReport)
    /\ printed_ok = [id \in PlateIds |-> 0]
    /\ calls = NoCalls
    /\ reservations = <<>>
    /\ stores = NoStores

KvOneCall ==
    \/ \E product_id \in 1..2, quantity \in KvQuantities :
          kvCall("first", "addPurchase", product_id, quantity, 3, 0)
    \/ kvCall("first", "printPlate", 0, 0, 0, 1)

KvOneAddPurchase == kvAddPurchase("first")

KvOnePrintPlate == kvPrintPlate("first", "2024-01-01")

NextKvOne == KvOneCall \/ KvOneAddPurchase \/ KvOnePrintPlate

SpecKvOne == InitKvOne /\ [][NextKvOne]_vars

----------------------------------------------------------------------------
(* SpecRun: a sequential run of purchases, sales, one reservation and its  *)
(* completion, and the printing of one plate whose two size keys have no   *)
(* product yet, on a catalog of one sticker product and one tote bag.      *)

ReservationInput(product_id, quantity, unit_price, advance_payment, status) ==
    [id |-> 0, product_id |-> product_id, customer_name |-> "cliente",
     quantity |-> quantity, unit_price |-> unit_price,
     advance_payment |-> advance_payment, total |-> quantity * unit_price,
     status |-> status]

InitRun ==
    /\ products = AddedProduct(AddedProduct(<<>>, StickerChico), Totebag)
    /\ \E map \in PlateMaps :
          printing_plates = <<NewPlate(1, PlateName, MapArg(map), 0, Some(12))>>
    /\ purchases = <<>>
    /\ sales = <<>>
    /\ ret = Result("createPrintingPlate", 0, TRUE, 1, NoReport)
    /\ printed_ok = [id \in PlateIds |-> 0]
    /\ calls = NoCalls
    /\ reservations = <<>>
    /\ stores = NoStores

RunPurchase ==
    /\ Len(purchases) <= MaxMoves
    /\ \E product_id \in 1..3 : addPurchase(PurchaseInput(product_id, 2, 3))

RunSale ==
    /\ Len(sales) <= MaxMoves
    /\ \E product_id \in 2..3 : addSale(SaleInput(product_id, 1, 5))

RunReserve ==
    /\ Len(reservations) < MaxMoves
    /\ addReservation(ReservationInput(2, 1, 5, 0, "pending"))

RunComplete == completeReservation(1)

NextRun ==
    RunPurchase \/ RunSale \/ RunReserve \/ RunComplete \/ PrintFirstPlate

SpecRun == InitRun /\ [][NextRun]_vars

----------------------------------------------------------------------------
(* SpecReserve: reservations of the tote bag and of a product that is not  *)
(* in the catalog, pending or cancelled, their completion and plain sales. *)

ReserveCatalog == AddedAll(<<>>, <<Remera, Totebag>>)

InitReserve ==
    /\ products = ReserveCatalog
    /\ printing_plates = <<>>
    /\ purchases = <<>>
    /\ sales = <<>>
    /\ ret = Result("new", 0, TRUE, 0, NoReport)
    /\ printed_ok = [id \in PlateIds |-> 0]
    /\ calls = NoCalls
    /\ reservations = <<>>
    /\ stores = NoStores

Reserve ==
    /\ Len(reservations) < MaxReservations
    /\ \E product_id \in 2..3, status \in {"pending", "cancelled"} :
          addReservation(ReservationInput(product_id, 2, 5, 0, status))

Complete ==
    \E reservationId \in 1..(MaxReservations + 1) :
       completeReservation(reservationId)

ReserveSale ==
    /\ Len(sales) < MaxReservations
    /\ addSale(SaleInput(2, 1, 5))

NextReserve == Reserve \/ Complete \/ ReserveSale

SpecReserve == InitReserve /\ [][NextReserve]_vars

----------------------------------------------------------------------------
(* The storage layer of database-kv.ts. A call of setTable or getTable is  *)
(* a record of calls: the await it is at (redis.set, redis.get, the timer  *)
(* between two attempts) and its locals; attempts logs how each redis.set  *)
(* the call invoked was settled.                                           *)

\* the values written: arrays of rows, a row being its id
StoreData == {<<>>, <<1>>}

\* the errors a request to Redis is rejected with
RedisErrors == {"timeout", "unavailable"}

NotConfigured == "Redis no está configurado"

StoreCall(op, pc, table, data) ==
    [op |-> op, pc |-> pc, table |-> table, data |-> data, retries |-> 0,
     saved |-> FALSE, attempts |-> <<>>, error |-> None]

Settled == {"idle", "returned", "thrown"}

\* a retry loop that goes on after a successful redis.set
KeepsTrying_IgnoringSaved(retries, saved) == retries > 0

\* the condition of the retry loop of setTable
KeepsTrying(retries, saved) == retries > 0 /\ ~saved

\* setTable of the Redis-only DatabaseManager up to its first redis.set
setTable(c, table, data) ==
    /\ calls[c].pc \in Settled
    /\ calls' = [calls EXCEPT ![c] =
                    IF ~stores.client
                    THEN [StoreCall("setTable", "thrown", table, data)
                             EXCEPT !.error = Some(NotConfigured)]
                    ELSE [StoreCall("setTable", "redis.set", table, data)
                             EXCEPT !.retries = 3]]
    /\ UNCHANGED <<products, printing_plates, purchases, sales, ret,
                   printed_ok, reservations, stores>>

\* redis.set resolves: the value is stored, saved = true ends the loop
redisSetResolves(c) ==
    /\ calls[c].op = "setTable"
    /\ calls[c].pc = "redis.set"
    /\ stores' = [stores EXCEPT !.redis[calls[c].table] = Some(calls[c].data)]
    /\ calls' = [calls EXCEPT
                    ![c].saved = TRUE,
                    ![c].attempts = Append(@, "ok"),
                    ![c].pc = IF KeepsTrying(calls[c].retries, TRUE)
                              THEN "redis.set" ELSE "returned"]
    /\ UNCHANGED <<products, printing_plates, purchases, sales, ret,
                   printed_ok, reservations>>

\* redis.set rejects: retries--, the error is thrown when no retry is
\* left, a timer of 500 ms is awaited otherwise
redisSetRejects(c, retryError) ==
    /\ calls[c].op = "setTable"
    /\ calls[c].pc = "redis.set"
    /\ calls' = [calls EXCEPT
                    ![c].retries = @ - 1,
                    ![c].attempts = Append(@, retryError),
                    ![c].error = IF calls[c].retries - 1 = 0
                                 THEN Some(retryError) ELSE @,
                    ![c].pc = IF calls[c].retries - 1 = 0
                              THEN "thrown" ELSE "setTimeout"]
    /\ UNCHANGED <<products, printing_plates, purchases, sales, ret,
                   printed_ok, reservations, stores>>

\* the timer fires and the loop tests its condition again
retryTimer(c) ==
    /\ calls[c].op = "setTable"
    /\ calls[c].pc = "setTimeout"
    /\ calls' = [calls EXCEPT
                    ![c].pc = IF KeepsTrying(calls[c].retries, calls[c].saved)
                              THEN "redis.set" ELSE "returned"]
    /\ UNCHANGED <<products, printing_plates, purchases, sales, ret,
                   printed_ok, reservations, stores>>

----------------------------------------------------------------------------
(* SpecSet: setTable calls of two callers on the Redis-only store, with    *)
(* and without a Redis client, every redis.set resolving or rejecting.     *)
(* SpecSetFair adds that every request to Redis is settled and every timer *)
(* fires.                                                                  *)

InitSet ==
    /\ products = <<>>
    /\ printing_plates = <<>>
    /\ purchases = <<>>
    /\ sales = <<>>
    /\ ret = Result("new", 0, TRUE, 0, NoReport)
    /\ printed_ok = [id \in PlateIds |-> 0]
    /\ calls = NoCalls
    /\ reservations = <<>>
    /\ \E client \in BOOLEAN : stores = [NoStores EXCEPT !.client = client]

SetTable ==
    \E c \in Callers, data \in StoreData : setTable(c, "products", data)

RedisSetResolves == \E c \in Callers : redisSetResolves(c)

RedisSetRejects ==
    \E c \in Callers, retryError \in RedisErrors :
       redisSetRejects(c, retryError)

RedisSetSettles(c) ==
    redisSetResolves(c) \/ \E e \in RedisErrors : redisSetRejects(c, e)

RetryTimer == \E c \in Callers : retryTimer(c)

NextSet == SetTable \/ RedisSetResolves \/ RedisSetRejects \/ RetryTimer

SpecSet == InitSet /\ [][NextSet]_vars

SpecSetFair ==
    /\ SpecSet
    /\ \A c \in Callers :
          WF_vars(RedisSetSettles(c)) /\ WF_vars(retryTimer(c))

----------------------------------------------------------------------------
(* The store of the first DatabaseManager of database-kv.ts: every write   *)
(* goes to localStorage, as JSON text, and then to Redis when there is a   *)
(* client; every read asks Redis first and falls back to localStorage.     *)

\* the decimal digit a character is
Digit(ch) == CHOOSE n \in 0..9 : ToString(n) = ch

RECURSIVE Joined(_)
\* the rows separated by commas
Joined(data) ==
    IF data = <<>> THEN <<>>
    ELSE IF Len(data) = 1 THEN <<ToString(data[1])>>
    ELSE <<ToString(Head(data)), ",">> \o Joined(Tail(data))

\* JSON.stringify of an array of rows
Stringify(data) == <<"[">> \o Joined(data) \o <<"]">>

\* JSON.parse of the text of an array of rows
Parse(text) ==
    [k \in 1..((Len(text) - 1) \div 2) |-> Digit(text[2 * k])]

\* localData ? JSON.parse(localData) : []
LocalData(table) ==
    IF stores.localStorage[table] # None
    THEN Parse(stores.localStorage[table][1])
    ELSE <<>>

\* setTable up to its redis.set, or to its end when there is no client
fallbackSetTable(c, table, data) ==
    /\ calls[c].pc \in Settled
    /\ stores' = [stores EXCEPT
                     !.localStorage[table] = Some(Stringify(data))]
    /\ IF stores.client
       THEN /\ calls' = [calls EXCEPT ![c] =
                            StoreCall("setTable", "redis.set", table, data)]
            /\ UNCHANGED ret
       ELSE /\ calls' = [calls EXCEPT ![c] =
                            StoreCall("setTable", "returned", table, data)]
            /\ ret' = Result("setTable", table, TRUE, 0, data)
    /\ UNCHANGED <<products, printing_plates, purchases, sales, printed_ok,
                   reservations>>

\* redis.set resolves: Redis holds the value, setTable returns
fallbackSetResolves(c) ==
    /\ calls[c].op = "setTable"
    /\ calls[c].pc = "redis.set"
    /\ stores' = [stores EXCEPT !.redis[calls[c].table] = Some(calls[c].data)]
    /\ calls' = [calls EXCEPT ![c].pc = "returned"]
    /\ ret' = Result("setTable", calls[c].table, TRUE, 0, calls[c].data)
    /\ UNCHANGED <<products, printing_plates, purchases, sales, printed_ok,
                   reservations>>

\* redis.set rejects: the error is logged, setTable returns
fallbackSetRejects(c) ==
    /\ calls[c].op = "setTable"
    /\ calls[c].pc = "redis.set"
    /\ calls' = [calls EXCEPT ![c].pc = "returned"]
    /\ ret' = Result("setTable", calls[c].table, TRUE, 0, calls[c].data)
    /\ UNCHANGED <<products, printing_plates, purchases, sales, printed_ok,
                   reservations, stores>>

\* getTable up to its redis.get, or to its end when there is no client
fallbackGetTable(c, table) ==
    /\ calls[c].pc \in Settled
    /\ IF stores.client
       THEN /\ calls' = [calls EXCEPT ![c] =
                            StoreCall("getTable", "redis.get", table, <<>>)]
            /\ UNCHANGED ret
       ELSE /\ calls' = [calls EXCEPT ![c] =
                            StoreCall("getTable", "returned", table,
                                      LocalData(table))]
            /\ ret' = Result("getTable", table, TRUE, 0, LocalData(table))
    /\ UNCHANGED <<products, printing_plates, purchases, sales, printed_ok,
                   reservations, stores>>

\* what getTable returns when redis.get gave a value or null
Fetched(table, data) ==
    IF data # None THEN data[1] ELSE LocalData(table)

\* redis.get resolves: its value when there is one, else localStorage
fallbackGetResolves(c) ==
    /\ calls[c].op = "getTable"
    /\ calls[c].pc = "redis.get"
    /\ LET data == Fetched(calls[c].table, stores.redis[calls[c].table])
       IN  /\ calls' = [calls EXCEPT ![c].pc = "returned", ![c].data = data]
           /\ ret' = Result("getTable", calls[c].table, TRUE, 0, data)
    /\ UNCHANGED <<products, printing_plates, purchases, sales, printed_ok,
                   reservations, stores>>

\* redis.get rejects: the error is logged, localStorage is read
fallbackGetRejects(c) ==
    /\ calls[c].op = "getTable"
    /\ calls[c].pc = "redis.get"
    /\ LET data == LocalData(calls[c].table)
       IN  /\ calls' = [calls EXCEPT ![c].pc = "returned", ![c].data = data]
           /\ ret' = Result("getTable", calls[c].table, TRUE, 0, data)
    /\ UNCHANGED <<products, printing_plates, purchases, sales, printed_ok,
                   reservations, stores>>

----------------------------------------------------------------------------
(* SpecFallback: one caller writing and reading two keys in sequence, each *)
(* call awaited before the next, with and without a Redis client, every    *)
(* request to Redis resolving or rejecting.                                *)

FallbackSetTable ==
    \E table \in StoreKeys, data \in StoreData :
       fallbackSetTable("first", table, data)

FallbackSetResolves == fallbackSetResolves("first")

FallbackSetRejects == fallbackSetRejects("first")

FallbackGetTable == \E table \in StoreKeys : fallbackGetTable("first", table)

FallbackGetResolves == fallbackGetResolves("first")

FallbackGetRejects == fallbackGetRejects("first")

NextFallback ==
    \/ FallbackSetTable
    \/ FallbackSetResolves
    \/ FallbackSetRejects
    \/ FallbackGetTable
    \/ FallbackGetResolves
    \/ FallbackGetRejects

SpecFallback == InitSet /\ [][NextFallback]_vars

----------------------------------------------------------------------------
(* Properties.                                                             *)

\* the plate a call named, as the table holds it
PlateOf(plates, plateId) == plates[FindIndex(plates, plateId)]

HasPlate(plates, plateId) == FindIndex(plates, plateId) # 0

PrintedNow == ret.op = "printPlate" /\ ret.ok

\* stock a step added to the sticker products whose size key is sizeKey
StockIncrease(old, new, sizeKey) ==
    LET bound == ProductsBySize(new, sizeKey)
    IN  Sum([k \in DOMAIN bound |->
                new[bound[k]].stock
                - (IF bound[k] <= Len(old) THEN old[bound[k]].stock ELSE 0)])

\* sum over perProductAssign of assigned unit cost times assigned quantity
AssignedCost(alloc) ==
    RSum([k \in DOMAIN alloc.perProductAssign |->
            RMul(alloc.perProductAssign[k].unitCost,
                 RInt(alloc.perProductAssign[k].qty))])

\* C1: after a successful printPlate of a pending plate, for every size key
\* of the plate the stock added to the sticker products bound to that key
\* (a product created for the key included) adds up to the plate's quantity
\* for the key.
C1_Conservation ==
    [][(ret'.op = "printPlate" /\ ret'.ok) =>
          LET counts == PlateOf(printing_plates, ret'.arg).stickers_quantities
          IN  \A j \in DOMAIN counts :
                 StockIncrease(products, products', counts[j].key) = counts[j].qty
      ]_vars

\* a key was split unevenly over two or more bound products
C1_Witness ==
    /\ PrintedNow
    /\ \E a, b \in DOMAIN ret.alloc.perProductAssign :
          LET x == ret.alloc.perProductAssign[a]
              y == ret.alloc.perProductAssign[b]
          IN  /\ a # b
              /\ SizeKeyOf(products[x.product]) = SizeKeyOf(products[y.product])
              /\ x.qty # y.qty

\* C2: whenever printPlate runs with totalArea > 0, the assigned unit costs
\* times the assigned quantities add up to plate.cost.
C2_AreaReconciliation ==
    (PrintedNow /\ ret.alloc.totalArea > 0) =>
        AssignedCost(ret.alloc) = RInt(PlateOf(printing_plates, ret.arg).cost)

\* C3 as stated: whenever printPlate runs with totalArea = 0, the assigned
\* unit costs times the assigned quantities add up to plate.cost, for any
\* quantities.
C3_CountReconciliation ==
    (PrintedNow /\ ret.alloc.totalArea = 0) =>
        AssignedCost(ret.alloc) = RInt(PlateOf(printing_plates, ret.arg).cost)

\* C3 amended: whenever printPlate runs with totalArea = 0, the assigned unit
\* costs times the assigned quantities add up to plate.cost if the plate has
\* at least one sticker (totalCount > 0), and to 0 if it has none.
C3_CountReconciliationAmended ==
    (PrintedNow /\ ret.alloc.totalArea = 0) =>
        AssignedCost(ret.alloc) =
            IF ret.alloc.totalCount > 0
            THEN RInt(PlateOf(printing_plates, ret.arg).cost)
            ELSE RZero

\* count mode with the units of a key split over several products
C3_Witness ==
    /\ PrintedNow
    /\ ret.alloc.totalArea = 0
    /\ ret.alloc.totalCount > 1
    /\ Len(ret.alloc.perProductAssign) > 1
    /\ PlateOf(printing_plates, ret.arg).cost > 0

\* C4: if a size key of the plate with a positive quantity has no unit area,
\* every unit of every size gets the flat unit cost plate.cost / totalCount.
C4_GlobalCountMode ==
    (/\ PrintedNow
     /\ \E j \in DOMAIN ret.alloc.areaPerSize :
           /\ ~Truthy(ret.alloc.areaPerSize[j])
           /\ PlateOf(printing_plates, ret.arg).stickers_quantities[j].qty > 0)
    => \A k \in DOMAIN ret.alloc.perProductAssign :
          ret.alloc.perProductAssign[k].unitCost =
             RDiv(RInt(PlateOf(printing_plates, ret.arg).cost),
                  RInt(ret.alloc.totalCount))

\* C5: printPlate on a missing or already printed plate returns false,
\* deletePrintingPlate on a missing or printed plate returns false and
\* previewPrintingPlate on a missing plate returns null, and each leaves the
\* products table and the printing_plates table as they were.
C5_FailuresChangeNothing ==
    [][LET missing == ~HasPlate(printing_plates, ret'.arg)
           printed == /\ HasPlate(printing_plates, ret'.arg)
                      /\ PlateOf(printing_plates, ret'.arg).is_printed
       IN  /\ (ret'.op \in {"printPlate", "deletePrintingPlate"}
                  /\ (missing \/ printed))
              => (~ret'.ok /\ UNCHANGED <<products, printing_plates>>)
           /\ (ret'.op = "previewPrintingPlate" /\ missing)
              => (~ret'.ok /\ ret'.report = NoReport
                  /\ UNCHANGED <<products, printing_plates>>)
      ]_vars

\* printPlate was refused on a plate that is printed
C5_Witness ==
    /\ ret.op = "printPlate"
    /\ ~ret.ok
    /\ HasPlate(printing_plates, ret.arg)
    /\ PlateOf(printing_plates, ret.arg).is_printed

\* C6: a plate that is printed stays in the printing_plates table, printed,
\* with the same cost, quantities and date_printed, whatever is called.
C6_PrintedIsImmutable ==
    [][\A i \in DOMAIN printing_plates :
          printing_plates[i].is_printed =>
             \E j \in DOMAIN printing_plates' :
                printing_plates'[j] = printing_plates[i]
      ]_vars

\* deletePrintingPlate was refused on a plate that is printed
C6_Witness ==
    /\ ret.op = "deletePrintingPlate"
    /\ ~ret.ok
    /\ HasPlate(printing_plates, ret.arg)
    /\ PlateOf(printing_plates, ret.arg).is_printed

\* C7: a plate is created pending without date_printed, a printed plate never
\* becomes pending again, printPlate returns true at most once per plate and
\* only on a pending plate, and only such a call adds the plate's quantities
\* to the stock.
C7_PlateLifecycle ==
    [][/\ \A j \in DOMAIN printing_plates' :
             ~HasPlate(printing_plates, printing_plates'[j].id) =>
                /\ ~printing_plates'[j].is_printed
                /\ printing_plates'[j].date_printed = None
       /\ \A i \in DOMAIN printing_plates, j \in DOMAIN printing_plates' :
             (printing_plates[i].id = printing_plates'[j].id
                 /\ printing_plates[i].is_printed)
             => printing_plates'[j].is_printed
       /\ \A id \in PlateIds : printed_ok'[id] <= 1
       /\ (ret'.op = "printPlate" /\ ret'.ok) =>
             /\ HasPlate(printing_plates, ret'.arg)
             /\ ~PlateOf(printing_plates, ret'.arg).is_printed
             /\ PlateOf(printing_plates', ret'.arg).is_printed
             /\ printed_ok[ret'.arg] = 0
       /\ (ret'.op = "printPlate" /\ ~ret'.ok) => products' = products
      ]_vars

\* printPlate returned true for the second plate, the first one deleted
C7_Witness ==
    /\ PrintedNow
    /\ printed_ok[ret.arg] = 1
    /\ Len(printing_plates) = 1
    /\ printing_plates[1].id = 2
    /\ printing_plates[1].is_printed

\* C8: a product that starts without stock and to which only purchases are
\* applied has the cost (sum of qty_i * c_i) / (sum of qty_i), whatever the
\* order of the purchases, and the stock sum of qty_i.
C8_WeightedAverage ==
    LET mine == SelectSeq(purchases, LAMBDA x : x.product_id = 1)
        sumQty == Sum([k \in DOMAIN mine |-> mine[k].quantity])
        sumCost == Sum([k \in DOMAIN mine |-> mine[k].quantity * mine[k].unit_cost])
    IN  (\A k \in DOMAIN sales : sales[k].product_id # 1) =>
           /\ products[1].stock = sumQty
           /\ sumQty > 0 => products[1].cost = Rat(sumCost, sumQty)

\* three purchases of the product at two different unit costs
C8_Witness ==
    LET mine == SelectSeq(purchases, LAMBDA x : x.product_id = 1)
    IN  /\ \A k \in DOMAIN sales : sales[k].product_id # 1
        /\ Len(mine) = 3
        /\ \A k \in DOMAIN mine : mine[k].quantity > 0
        /\ mine[1].unit_cost # mine[2].unit_cost
        /\ mine[1].quantity # mine[3].quantity
        /\ ret.op = "addPurchase"

\* C9: when printPlate splits the quantity q of a size key over its n >= 1
\* bound products, the i-th of them in table order, counting from 0, gets
\* floor(q / n) + 1 units if i < q - n * floor(q / n), else floor(q / n).
C9_RemainderFairness ==
    [][(ret'.op = "printPlate" /\ ret'.ok) =>
          LET counts == PlateOf(printing_plates, ret'.arg).stickers_quantities
          IN  \A j \in DOMAIN counts :
                 LET bound == ProductsBySize(products', counts[j].key)
                     n == Len(bound)
                     q == counts[j].qty
                 IN  \A k \in DOMAIN bound :
                        products'[bound[k]].stock
                        - (IF bound[k] <= Len(products)
                           THEN products[bound[k]].stock ELSE 0)
                        = (q \div n) + (IF k - 1 < q - n * (q \div n) THEN 1 ELSE 0)
      ]_vars

\* 10 units over 3 bound products: 4, 3, 3 in table order
C9_Witness ==
    /\ PrintedNow
    /\ [k \in DOMAIN ret.alloc.perProductAssign |->
           ret.alloc.perProductAssign[k].qty] = <<4, 3, 3>>

\* C10: previewPrintingPlate changes no table (no product added, no stock,
\* cost, is_printed or date_printed changed), and a second call right after
\* it returns the same report.
C10_PreviewIsPure ==
    /\ [][ret'.op = "previewPrintingPlate" =>
             UNCHANGED <<products, printing_plates, purchases, sales>>]_vars
    /\ []((ret.op = "previewPrintingPlate" /\ ret.ok) =>
             ret.report = PreviewReport(products, PlateOf(printing_plates, ret.arg)))

\* a preview of a pending plate with a key that printPlate would create a
\* product for
C10_Witness ==
    /\ ret.op = "previewPrintingPlate"
    /\ ret.ok
    /\ ~PlateOf(printing_plates, ret.arg).is_printed
    /\ \E j \in DOMAIN ret.report.items :
          ret.report.items[j].qty > 0 /\ ret.report.items[j].products = <<>>

PreviewedNow == ret.op = "previewPrintingPlate" /\ ret.ok

\* sum over the report items of totalCost
ReportedCost(report) ==
    RSum([j \in DOMAIN report.items |-> report.items[j].totalCost])

\* sum over the report items of qty
ReportedCount(report) ==
    Sum([j \in DOMAIN report.items |-> report.items[j].qty])

\* C11 as stated: in every report of previewPrintingPlate each item's
\* totalCost is unitCost times qty and the items' totalCost add up to the
\* report's totalCost, the plate's cost, for every plate and catalog.
C11_PreviewReconciliation ==
    PreviewedNow =>
        /\ \A j \in DOMAIN ret.report.items :
              ret.report.items[j].totalCost =
                 RMul(ret.report.items[j].unitCost, RInt(ret.report.items[j].qty))
        /\ ReportedCost(ret.report) = RInt(ret.report.totalCost)

\* C11 amended: in every report of previewPrintingPlate each item's totalCost
\* is unitCost times qty, and the items' totalCost add up to the report's
\* totalCost, the plate's cost, if the plate has at least one sticker, and
\* to 0 if all its quantities are 0.
C11_PreviewReconciliationAmended ==
    PreviewedNow =>
        /\ ret.report.totalCost = PlateOf(printing_plates, ret.arg).cost
        /\ \A j \in DOMAIN ret.report.items :
              ret.report.items[j].totalCost =
                 RMul(ret.report.items[j].unitCost, RInt(ret.report.items[j].qty))
        /\ ReportedCost(ret.report) =
              IF ReportedCount(ret.report) > 0
              THEN RInt(ret.report.totalCost)
              ELSE RZero

\* a report in area mode over two sizes, one of them without a unit area
C11_Witness ==
    /\ PreviewedNow
    /\ ret.report.totalCost > 0
    /\ \E i, j \in DOMAIN ret.report.items :
          /\ ret.report.items[i].qty > 0
          /\ ret.report.items[i].unitCost # RZero
          /\ ret.report.items[i].unitArea # None
          /\ AreaOrZero(ret.report.items[i].unitArea) > 0
          /\ ret.report.items[j].qty > 0
          /\ ret.report.items[j].unitCost = RZero

\* C12: when printPlate succeeds right after a preview of the same pending
\* plate, both used the same cost mode and the same unit area for each size
\* key, and every product bound to a size key was assigned the unit cost the
\* report gave for that key.
C12_PreviewAgreesWithPrint ==
    [][(/\ PreviewedNow
        /\ ret'.op = "printPlate" /\ ret'.ok
        /\ ret'.arg = ret.arg)
       => LET items == ret.report.items
              alloc == ret'.alloc
              previewArea ==
                  Sum([j \in DOMAIN items |->
                          AreaOrZero(items[j].unitArea) * items[j].qty])
          IN  /\ (previewArea > 0) <=> (alloc.totalArea > 0)
              /\ \A j \in DOMAIN items :
                    AreaOrZero(items[j].unitArea)
                       = AreaOrZero(alloc.areaPerSize[j])
              /\ \A j \in DOMAIN items, k \in DOMAIN alloc.perProductAssign :
                    SizeKeyOf(products'[alloc.perProductAssign[k].product])
                       = items[j].sizeKey
                    => alloc.perProductAssign[k].unitCost = items[j].unitCost
      ]_vars

\* C13: a step that leaves a plate marked printed in the printing_plates
\* table also leaves the plate's quantities added to the stock of the
\* products table, and a printPlate that ends in an exception of setTable
\* leaves no plate printed that was pending.
C13_NeverPartiallyApplies ==
    [][\A i \in DOMAIN printing_plates, j \in DOMAIN printing_plates' :
          (/\ printing_plates[i].id = printing_plates'[j].id
           /\ ~printing_plates[i].is_printed
           /\ printing_plates'[j].is_printed)
          => /\ ret'.op # "printPlate throws"
             /\ \A k \in DOMAIN printing_plates[i].stickers_quantities :
                   LET count == printing_plates[i].stickers_quantities[k]
                   IN  StockIncrease(products, products', count.key) = count.qty
      ]_vars

\* C14: after every call no two products of the products table have the same
\* id, and every product a printPlate call added has an id greater than
\* every id the table held before the call.
C14_UniqueProductIds ==
    [][/\ \A i, j \in DOMAIN products' :
             products'[i].id = products'[j].id => i = j
       /\ (ret'.op = "printPlate" /\ ret'.ok) =>
             \A i \in DOMAIN products, j \in DOMAIN products' :
                j > Len(products) => products'[j].id > products[i].id
      ]_vars

\* has an explicit area: area_mm2, or both width_mm and height_mm
ExplicitArea(p) ==
    p.area_mm2 # None \/ (p.width_mm # None /\ p.height_mm # None)

\* the unit area of a size key by the four rules, in their order
ResolvedArea(prods, sizeKey) ==
    LET bound == {i \in DOMAIN prods :
                     /\ prods[i].category = "stickers"
                     /\ prods[i].size = sizeKey
                     /\ ExplicitArea(prods[i])}
    IN  IF bound # {}
        THEN LET first == CHOOSE i \in bound : \A k \in bound : i <= k
             IN  IF prods[first].area_mm2 # None THEN prods[first].area_mm2
                 ELSE Some(prods[first].width_mm[1] * prods[first].height_mm[1])
        ELSE IF ToLowerCase(sizeKey) = KeyChico THEN Some(2500)
        ELSE IF ToLowerCase(sizeKey) = KeyGrande THEN Some(10000)
        ELSE IF MatchDims(sizeKey)
             THEN Some(DimWidth(sizeKey) * DimHeight(sizeKey))
        ELSE None

\* C15: the unit area printPlate and previewPrintingPlate use for each size
\* key of the plate is (1) that of the first sticker product bound to the
\* key that has area_mm2 or both width_mm and height_mm, area_mm2 before
\* width_mm * height_mm; (2) otherwise 2500 for "chico" and 10000 for
\* "grande" in any case of the letters; (3) otherwise width * height of a
\* key of the form <number>x<number>; (4) otherwise undefined.
C15_AreaResolution ==
    [][/\ (ret'.op = "printPlate" /\ ret'.ok) =>
             LET counts == PlateOf(printing_plates, ret'.arg).stickers_quantities
             IN  \A j \in DOMAIN counts :
                    ret'.alloc.areaPerSize[j] = ResolvedArea(products, counts[j].key)
       /\ (ret'.op = "previewPrintingPlate" /\ ret'.ok) =>
             \A j \in DOMAIN ret'.report.items :
                LET item == ret'.report.items[j]
                    area == ResolvedArea(products, item.sizeKey)
                IN  /\ AreaOrZero(item.unitArea) = AreaOrZero(area)
                    /\ item.unitArea \in {area, Some(AreaOrZero(area))}
      ]_vars

\* the key's second bound product is the first with an area, and its
\* area_mm2 is not its width_mm * height_mm
C15_Witness ==
    /\ PrintedNow
    /\ Len(products) = 2
    /\ products[1].category = "stickers" /\ products[1].size = KeyChico
    /\ products[1].width_mm # None /\ ~ExplicitArea(products[1])
    /\ products[2].category = "stickers" /\ products[2].size = KeyChico
    /\ products[2].area_mm2 = Some(7)
    /\ products[2].width_mm = Some(2) /\ products[2].height_mm = Some(5)
    /\ ret.alloc.areaPerSize = <<Some(7)>>

\* stock and cost after qty units at unit cost u are added to a product
LedgerRule(stock, cost, qty, u) ==
    [stock |-> stock + qty,
     cost |-> IF stock > 0
              THEN Rat(stock * cost[1] * u[2] + qty * u[1] * cost[2],
                       (stock + qty) * cost[2] * u[2])
              ELSE u]

\* C16: a product that printPlate assigns qty >= 0 units at a unit cost u and
\* a product of which addPurchase records qty >= 0 units at unit cost u both
\* end with the stock plus qty and with the cost
\* (stock * cost + qty * u) / (stock + qty) if the stock before was > 0,
\* else u.
C16_OneLedgerRule ==
    [][/\ (ret'.op = "printPlate" /\ ret'.ok) =>
             \A k \in DOMAIN ret'.alloc.perProductAssign :
                LET e == ret'.alloc.perProductAssign[k]
                    stock == IF e.product <= Len(products)
                             THEN products[e.product].stock ELSE 0
                    cost == IF e.product <= Len(products)
                            THEN products[e.product].cost ELSE RZero
                    rule == LedgerRule(stock, cost, e.qty, e.unitCost)
                IN  /\ products'[e.product].stock = rule.stock
                    /\ products'[e.product].cost = rule.cost
       /\ (ret'.op = "addPurchase" /\ HasPlate(products, ret'.arg)) =>
             LET purchase == purchases'[Len(purchases')]
                 before == products[FindIndex(products, ret'.arg)]
                 after == products'[FindIndex(products, ret'.arg)]
                 rule == LedgerRule(before.stock, before.cost,
                                    purchase.quantity, RInt(purchase.unit_cost))
             IN  /\ after.stock = rule.stock
                 /\ after.cost = rule.cost
      ]_vars

\* a purchase of a product and then a plate that adds units to the stock the
\* purchase left, at a unit cost other than the purchase's
C16_Witness ==
    /\ PrintedNow
    /\ Len(purchases) = 1
    /\ purchases[1].quantity > 0
    /\ \E k \in DOMAIN ret.alloc.perProductAssign :
          LET e == ret.alloc.perProductAssign[k]
          IN  /\ products[e.product].id = purchases[1].product_id
              /\ e.qty > 0
              /\ products[e.product].stock = purchases[1].quantity + e.qty
              /\ e.unitCost # RInt(purchases[1].unit_cost)
              /\ products[e.product].cost # e.unitCost

\* the purchase an addPurchase step recorded
PurchasedNow(table) == table[Len(table)]

\* C17 as stated: addPurchase with quantity 0 leaves the stock and the cost
\* of every product as they were, whatever the stock of the product and the
\* unit cost of the purchase.
C17_EmptyPurchaseIsNoOp ==
    [][(ret'.op = "addPurchase" /\ PurchasedNow(purchases').quantity = 0)
          => products' = products
      ]_vars

\* C17 amended: addPurchase with quantity 0 leaves the stock of every product
\* and the cost of every other product as they were; the cost of the product
\* stays as it was if its stock is > 0 and becomes the unit cost of the
\* purchase if its stock is 0 or negative.
C17_EmptyPurchaseAmended ==
    [][(ret'.op = "addPurchase" /\ PurchasedNow(purchases').quantity = 0)
          => /\ Len(products') = Len(products)
             /\ \A i \in DOMAIN products :
                   /\ products'[i].stock = products[i].stock
                   /\ products'[i].cost =
                         IF i = FindIndex(products, ret'.arg)
                               /\ products[i].stock <= 0
                         THEN RInt(PurchasedNow(purchases').unit_cost)
                         ELSE products[i].cost
                   /\ products'[i] =
                         [products[i] EXCEPT !.cost = products'[i].cost]
      ]_vars

\* a purchase of 0 units of the product whose stock a sale left negative
\* gave it the unit cost of the purchase
C17_Witness ==
    /\ ret.op = "addPurchase"
    /\ Len(sales) = 1 /\ sales[1].product_id = 1
    /\ Len(purchases) = 1
    /\ purchases[1].quantity = 0 /\ purchases[1].product_id = 1
    /\ products[1].stock = -1
    /\ products[1].cost = RInt(purchases[1].unit_cost)

\* the sale an addSale step recorded
SoldNow(table) == table[Len(table)]

\* C18: addSale takes the quantity of the sale from the stock of the first
\* product with the sold id, whatever that stock is, also when it leaves the
\* stock negative, and changes nothing else of the products table: not the
\* cost of that product, not any other product.
C18_SalesPath ==
    [][ret'.op = "addSale" =>
          LET sale == SoldNow(sales')
              sold == FindIndex(products, sale.product_id)
          IN  /\ Len(sales') = Len(sales) + 1
              /\ Len(products') = Len(products)
              /\ \A i \in DOMAIN products :
                    products'[i] =
                       IF i = sold
                       THEN [products[i] EXCEPT
                                !.stock = products[i].stock - sale.quantity]
                       ELSE products[i]
      ]_vars

\* a sale of a product without stock: the stock is negative, the cost kept
C18_Witness ==
    /\ ret.op = "addSale"
    /\ Len(purchases) = 0
    /\ Len(sales) = 2
    /\ sales[1].product_id = 1 /\ sales[2].product_id = 1
    /\ products[1].stock = -2
    /\ products[1].cost = RInt(7)

\* C20: a successful printPlate leaves as it was every product of the table
\* that it assigns no unit to: every product that is not a sticker, every
\* sticker whose size key is not on the plate, and every bound sticker that
\* gets 0 units, whatever its stock.
C20_PrintFrame ==
    [][(ret'.op = "printPlate" /\ ret'.ok) =>
          /\ Len(products') >= Len(products)
          /\ \A i \in DOMAIN products :
                (\A k \in DOMAIN ret'.alloc.perProductAssign :
                    LET e == ret'.alloc.perProductAssign[k]
                    IN  e.product = i => e.qty = 0)
                => /\ products'[i].stock = products[i].stock
                   /\ products'[i].cost = products[i].cost
      ]_vars

\* both callers' calls returned, neither with false
BothReturned ==
    \A c \in Callers : calls[c].pc = "returned" /\ calls[c].ok

\* the units a call of database-kv.ts adds to the one sticker of SpecKv: the
\* quantity of the purchase, or the small stickers of the plate
UnitsOf(call) ==
    IF call.op = "addPurchase" THEN call.quantity
    ELSE printing_plates[1].small_stickers_quantity

\* C19: when the two calls of database-kv.ts (addPurchase or printPlate) of
\* two callers have both returned successfully, the stock of the product
\* they both add to holds the units of both or the units of only one of
\* them, the other's write of the products table overwritten; the store
\* refuses none of the writes.
C19_LostUpdate ==
    BothReturned =>
        products[1].stock \in
           {UnitsOf(calls["first"]) + UnitsOf(calls["second"]),
            UnitsOf(calls["first"]), UnitsOf(calls["second"])}

\* a purchase of 1 unit and the printing of a plate with 2 small stickers
\* both returned successfully, and the stock holds the units of only one
C19_Witness ==
    /\ BothReturned
    /\ calls["first"].op = "addPurchase"
    /\ calls["first"].quantity = 1
    /\ calls["second"].op = "printPlate"
    /\ Len(purchases) = 1
    /\ printing_plates[1].is_printed
    /\ products[1].stock < 3

\* the sticker products of a table whose size is sizeKey
BoundTo(prods, sizeKey) ==
    {i \in DOMAIN prods :
        prods[i].category = "stickers" /\ prods[i].size = sizeKey}

\* C21: a successful printPlate keeps every product of the table in its
\* place and adds, after them, exactly one product for each size key of the
\* plate with a quantity > 0 and no sticker product bound to it, and no
\* other: named "Sticker <sizeKey>", of category stickers, price 0 and size
\* sizeKey, with width_mm, height_mm and area_mm2 set if and only if the key
\* has the form <number>x<number>, and with the whole quantity of the key as
\* its stock.
C21_Synthesis ==
    [][(ret'.op = "printPlate" /\ ret'.ok) =>
          LET counts == PlateOf(printing_plates, ret'.arg).stickers_quantities
              missing == {j \in DOMAIN counts :
                             /\ counts[j].qty > 0
                             /\ BoundTo(products, counts[j].key) = {}}
              added == (Len(products) + 1)..Len(products')
          IN  /\ Len(products') = Len(products) + Cardinality(missing)
              /\ \A i \in DOMAIN products :
                    /\ products'[i].id = products[i].id
                    /\ products'[i].name = products[i].name
                    /\ products'[i].size = products[i].size
              /\ \A j \in missing :
                    \E i \in added :
                       /\ BoundTo(products', counts[j].key) = {i}
                       /\ products'[i].name = <<"S", "t", "i", "c", "k", "e", "r", " ">>
                                                 \o counts[j].key
                       /\ products'[i].price = 0
                       /\ products'[i].stock = counts[j].qty
                       /\ IF MatchDims(counts[j].key)
                          THEN /\ products'[i].width_mm = Some(DimWidth(counts[j].key))
                               /\ products'[i].height_mm = Some(DimHeight(counts[j].key))
                               /\ products'[i].area_mm2 =
                                     Some(DimWidth(counts[j].key) * DimHeight(counts[j].key))
                          ELSE /\ products'[i].width_mm = None
                               /\ products'[i].height_mm = None
                               /\ products'[i].area_mm2 = None
      ]_vars

\* a plate with a key of quantity 0 and a key of the form <number>x<number>,
\* both without a product: one product was added, for the second key, after
\* the products the table had
C21_Witness ==
    /\ PrintedNow
    /\ Len(products) = 3
    /\ products[1].size # Key2x3 /\ products[2].size # Key2x3
    /\ products[3].size = Key2x3
    /\ products[3].width_mm = Some(2) /\ products[3].height_mm = Some(3)
    /\ products[3].stock = 2
    /\ \E j \in DOMAIN printing_plates[1].stickers_quantities :
          LET count == printing_plates[1].stickers_quantities[j]
          IN  count.qty = 0 /\ BoundTo(products, count.key) = {}

\* the area of a product's own: area_mm2, else width_mm * height_mm
AreaOfItsOwn(p) ==
    IF p.area_mm2 # None THEN p.area_mm2
    ELSE IF p.width_mm # None /\ p.height_mm # None
         THEN Some(p.width_mm[1] * p.height_mm[1])
         ELSE None

\* the position of a size key among the keys of a plate
KeyIndex(counts, sizeKey) == CHOOSE j \in DOMAIN counts : counts[j].key = sizeKey

\* the two sample stickers without dimensions and without stock
IsSampleSticker(p, sizeKey) ==
    /\ p.category = "stickers" /\ p.size = sizeKey
    /\ p.stock = 0
    /\ p.area_mm2 = None /\ p.width_mm = None /\ p.height_mm = None

\* C22: when printPlate runs with totalArea > 0, every product it assigns
\* units to that has an area a, its own (area_mm2, else width_mm *
\* height_mm) or else the unit area of its size key, gets the unit cost
\* plate.cost * a / totalArea; and for the stickers "chico" and "grande"
\* without dimensions and stock and the plate of cost 18500 with 100 "chico"
\* and 50 "grande", totalArea is 750000, the first ends with stock 100 and
\* cost 18500 * 2500 / 750000, the second with stock 50 and cost
\* 18500 * 10000 / 750000.
C22_AreaModeUnitCost ==
    [][(ret'.op = "printPlate" /\ ret'.ok /\ ret'.alloc.totalArea > 0) =>
          LET plate == PlateOf(printing_plates, ret'.arg)
              counts == plate.stickers_quantities
              alloc == ret'.alloc
          IN  /\ \A k \in DOMAIN alloc.perProductAssign :
                    LET e == alloc.perProductAssign[k]
                        p == products'[e.product]
                        own == AreaOfItsOwn(p)
                        a == IF own # None THEN own
                             ELSE alloc.areaPerSize[KeyIndex(counts, p.size)]
                    IN  a # None =>
                           e.unitCost = Rat(plate.cost * a[1], alloc.totalArea)
              /\ (/\ Len(products) = 2
                  /\ IsSampleSticker(products[1], KeyChico)
                  /\ IsSampleSticker(products[2], KeyGrande)
                  /\ plate.cost = 18500
                  /\ counts = <<[key |-> KeyChico, qty |-> 100],
                                [key |-> KeyGrande, qty |-> 50]>>)
                 => /\ alloc.totalArea = 750000
                    /\ Len(products') = 2
                    /\ products'[1].stock = 100
                    /\ products'[1].cost = Rat(18500 * 2500, 750000)
                    /\ products'[2].stock = 50
                    /\ products'[2].cost = Rat(18500 * 10000, 750000)
      ]_vars

\* the plate of cost 18500 with 100 "chico" and 50 "grande" was printed on
\* the two sample stickers
C22_Witness ==
    /\ PrintedNow
    /\ ret.alloc.totalArea = 750000
    /\ printing_plates[1].cost = 18500
    /\ Len(products) = 2
    /\ products[1].size = KeyChico /\ products[1].stock = 100
    /\ products[1].area_mm2 = None
    /\ products[2].size = KeyGrande /\ products[2].stock = 50
    /\ products[2].area_mm2 = None

\* the sum of the quantities of a plate
TotalQuantity(plate) ==
    Sum([j \in DOMAIN plate.stickers_quantities |->
            plate.stickers_quantities[j].qty])

\* a plate whose cost is 0 or whose quantities add up to 0
Degenerate(plate) == plate.cost = 0 \/ TotalQuantity(plate) = 0

\* C23: printPlate on a pending plate whose cost is 0 or whose quantities add
\* up to 0 returns true and previewPrintingPlate on such a plate returns a
\* report, every unit cost they assign or report being 0; and printPlate on
\* a plate whose quantities add up to 0 adds no product and changes no
\* product's stock.
C23_DegeneratePlates ==
    [][/\ (/\ ret'.op = "printPlate"
           /\ HasPlate(printing_plates, ret'.arg)
           /\ ~PlateOf(printing_plates, ret'.arg).is_printed
           /\ Degenerate(PlateOf(printing_plates, ret'.arg)))
          => /\ ret'.ok
             /\ \A k \in DOMAIN ret'.alloc.perProductAssign :
                   ret'.alloc.perProductAssign[k].unitCost = RZero
             /\ TotalQuantity(PlateOf(printing_plates, ret'.arg)) = 0
                => /\ Len(products') = Len(products)
                   /\ \A i \in DOMAIN products :
                         products'[i].stock = products[i].stock
       /\ (/\ ret'.op = "previewPrintingPlate"
           /\ HasPlate(printing_plates, ret'.arg)
           /\ Degenerate(PlateOf(printing_plates, ret'.arg)))
          => /\ ret'.ok
             /\ ret'.report # NoReport
             /\ \A j \in DOMAIN ret'.report.items :
                   ret'.report.items[j].unitCost = RZero
      ]_vars

\* a plate of cost 18500 without stickers was printed on a catalog with
\* stickers bound to its keys
C23_Witness ==
    /\ PrintedNow
    /\ printing_plates[1].cost = 18500
    /\ TotalQuantity(printing_plates[1]) = 0
    /\ Len(ret.alloc.perProductAssign) = 2
    /\ ret.alloc.totalCount = 0

\* a call of database-kv.ts returns in this step
KvReturns(c, op) ==
    /\ calls[c].op = op
    /\ calls[c].pc # "returned"
    /\ calls'[c].pc = "returned"

\* the stock a step adds to the stickers whose name contains part
KvStockAdded(part) ==
    Sum([i \in DOMAIN products |->
            IF products[i].category = "stickers"
                  /\ Includes(products[i].name, part)
            THEN products'[i].stock - products[i].stock
            ELSE 0])

\* C24: when printPlate of database-kv.ts returns true, the stock it added
\* to the stickers whose name contains "Chico" is the plate's
\* small_stickers_quantity and the stock it added to the stickers whose
\* name contains "Grande" is the plate's large_stickers_quantity, however
\* many stickers match.
C24_KvConservation ==
    [][\A c \in Callers :
          (KvReturns(c, "printPlate") /\ calls'[c].ok) =>
             LET plate == PlateOf(printing_plates, calls[c].plateId)
             IN  /\ Len(products') = Len(products)
                 /\ KvStockAdded(NameChico) = plate.small_stickers_quantity
                 /\ KvStockAdded(NameGrande) = plate.large_stickers_quantity
      ]_vars

\* C25: every stock addition of database-kv.ts, the purchase of addPurchase
\* at its unit cost and the units printPlate adds to a sticker at the cost
\* per sticker of the plate, leaves the product with the cost
\* (stock * cost + addedQty * addedUnitCost) / (stock + addedQty) if its
\* stock was > 0 and with addedUnitCost if not, as database.ts does.
C25_KvWeightedAverage ==
    [][\A c \in Callers :
          /\ (KvReturns(c, "addPurchase")
                 /\ FindIndex(products, calls[c].product_id) # 0) =>
                LET i == FindIndex(products, calls[c].product_id)
                    rule == LedgerRule(products[i].stock, products[i].cost,
                                       calls[c].quantity,
                                       RInt(calls[c].unit_cost))
                IN  /\ products'[i].stock = rule.stock
                    /\ products'[i].cost = rule.cost
                    /\ products'[i].cost =
                          PurchaseCost(products[i].stock, products[i].cost,
                                       calls[c].quantity,
                                       RInt(calls[c].unit_cost))
          /\ (KvReturns(c, "printPlate") /\ calls'[c].ok) =>
                LET plate == PlateOf(printing_plates, calls[c].plateId)
                    total == plate.small_stickers_quantity
                                + plate.large_stickers_quantity
                    unit == IF total > 0 THEN Rat(plate.cost, total) ELSE RZero
                IN  \A i \in DOMAIN products :
                       products'[i].stock # products[i].stock =>
                          products'[i].cost =
                             LedgerRule(products[i].stock, products[i].cost,
                                        products'[i].stock - products[i].stock,
                                        unit).cost
      ]_vars

\* C26: of the printPlate calls of database-kv.ts that two callers make for
\* the same pending plate at most one returns true, and the stock of the
\* sticker holds the plate's small stickers at most once, besides the units
\* of the purchases.
C26_NoDoublePrinting ==
    /\ \A id \in PlateIds : printed_ok[id] <= 1
    /\ Cardinality({c \in Callers :
                       /\ calls[c].op = "printPlate"
                       /\ calls[c].pc = "returned"
                       /\ calls[c].ok}) <= 1
    /\ products[1].stock <=
          Sum([k \in DOMAIN purchases |-> purchases[k].quantity])
          + printing_plates[1].small_stickers_quantity

\* quantity a step's printPlate assigned to the product at an index
AssignedTo(alloc, i) ==
    Sum([k \in DOMAIN alloc.perProductAssign |->
            IF alloc.perProductAssign[k].product = i
            THEN alloc.perProductAssign[k].qty ELSE 0])

\* quantity of the row a step appended to a ledger for a product id
RecordedFor(old, new, id) ==
    IF Len(new) > Len(old) /\ new[Len(new)].product_id = id
    THEN new[Len(new)].quantity ELSE 0

\* C27: in a sequential run of addPurchase, addSale, completeReservation and
\* printPlate, the stock of every product is its initial stock plus the
\* quantities of the purchases recorded for its id plus the quantities the
\* printed plates assigned to it minus the quantities of the sales recorded
\* for its id: every step moves the stock of every product by exactly what
\* the step records for it (a product a plate adds starts from 0).
C27_StockLedger ==
    [][\A i \in DOMAIN products' :
          products'[i].stock =
              (IF i <= Len(products) THEN products[i].stock ELSE 0)
              + RecordedFor(purchases, purchases', products'[i].id)
              + (IF ret'.op = "printPlate" /\ ret'.ok
                 THEN AssignedTo(ret'.alloc, i) ELSE 0)
              - RecordedFor(sales, sales', products'[i].id)
      ]_vars

\* the rows of a table with an id
WithId(table, id) == {i \in DOMAIN table : table[i].id = id}

\* the sales that carry the id of a reservation
CarriedBy(table, reservationId) ==
    {i \in DOMAIN table :
        /\ "reservation_id" \in DOMAIN table[i]
        /\ table[i].reservation_id = reservationId}

\* sum of the quantities of the sales of a product id
SoldOf(table, id) ==
    Sum([i \in DOMAIN table |->
            IF table[i].product_id = id THEN table[i].quantity ELSE 0])

\* at most one sale carries the id of a reservation, a sale that does is
\* for the product and the quantity of the reservation, which is completed,
\* and the stock of every product is its initial stock minus the quantities
\* of the sales recorded for it
CompletedOnce ==
    /\ \A i \in DOMAIN reservations :
          LET carried == CarriedBy(sales, reservations[i].id)
          IN  /\ Cardinality(carried) <= 1
              /\ \A k \in carried :
                    /\ reservations[i].status = "completed"
                    /\ sales[k].product_id = reservations[i].product_id
                    /\ sales[k].quantity = reservations[i].quantity
    /\ \A j \in DOMAIN products :
          products[j].stock =
              ReserveCatalog[j].stock - SoldOf(sales, products[j].id)

\* C28: completeReservation returns true exactly for an existing reservation
\* whose status is pending and then sets that reservation, and no other, to
\* completed; when it returns false no table changes. No step takes a
\* completed reservation back to another status. In every state at most one
\* sale carries a given reservation_id, that sale is for the product and
\* the quantity of the reservation, which is completed, and the stock of
\* every product is its initial stock minus the quantities of the sales
\* recorded for it, so a reservation took its quantity at most once.
C28_CompleteOnce ==
    /\ [][/\ ret'.op = "completeReservation" =>
               LET pending == {i \in WithId(reservations, ret'.arg) :
                                  reservations[i].status = "pending"}
               IN  /\ ret'.ok <=> pending # {}
                   /\ ret'.ok =>
                         /\ Len(reservations') = Len(reservations)
                         /\ \A i \in DOMAIN reservations :
                               reservations'[i] =
                                  IF i \in pending
                                  THEN [reservations[i] EXCEPT
                                           !.status = "completed"]
                                  ELSE reservations[i]
                         /\ Cardinality(CarriedBy(sales', ret'.arg)) <= 1
                   /\ ~ret'.ok =>
                         UNCHANGED <<products, printing_plates, purchases,
                                     sales, reservations>>
          /\ \A i \in DOMAIN reservations :
                reservations[i].status = "completed"
                => /\ i \in DOMAIN reservations'
                   /\ reservations'[i].status = "completed"
         ]_vars
    /\ []CompletedOnce

\* a second completeReservation of a reservation that is completed and has
\* its sale was refused
C28_Witness ==
    /\ ret.op = "completeReservation"
    /\ ~ret.ok
    /\ \E i \in WithId(reservations, ret.arg) :
          /\ reservations[i].status = "completed"
          /\ CarriedBy(sales, ret.arg) # {}

\* the attempts of a call that were rejected
Rejected(call) ==
    {k \in DOMAIN call.attempts : call.attempts[k] # "ok"}

\* what C29 says of one setTable call, at every point of it
BoundedRetry(call) ==
    LET n == Len(call.attempts)
    IN  /\ n <= 3
        /\ \A k \in 1..(n - 1) : call.attempts[k] # "ok"
        /\ call.pc = "returned" <=> (n >= 1 /\ call.attempts[n] = "ok")
        /\ IF stores.client
           THEN /\ call.pc = "thrown" <=>
                      (n = 3 /\ Rejected(call) = 1..3)
                /\ call.pc = "thrown" => call.error = Some(call.attempts[3])
           ELSE /\ call.pc = "thrown"
                /\ n = 0
                /\ call.error = Some(NotConfigured)

\* C29: a setTable call of the Redis-only store invokes redis.set at most 3
\* times and not again after an attempt that succeeded; it has returned
\* exactly when its last attempt succeeded, and with a Redis client it has
\* thrown exactly when 3 attempts were rejected, the error being the one of
\* the third (without a client it throws before any attempt); and, every
\* request being settled and every timer firing, each call returns or
\* throws.
C29_BoundedRetry ==
    /\ [](\A c \in Callers :
             calls[c].op = "setTable" => BoundedRetry(calls[c]))
    /\ \A c \in Callers :
          [](calls[c].op = "setTable"
                => <>(calls[c].pc \in {"returned", "thrown"}))

\* a call threw after three rejected attempts, the last with another error
\* than the first, while the other caller's call succeeded at its second
C29_Witness ==
    \E c, d \in Callers :
       /\ calls[c].pc = "thrown"
       /\ Len(calls[c].attempts) = 3
       /\ calls[c].attempts[1] # calls[c].attempts[3]
       /\ calls[c].error = Some(calls[c].attempts[3])
       /\ calls[d].pc = "returned"
       /\ Len(calls[d].attempts) = 2

\* C30: in the store with the localStorage fallback, when setTable(t, d) has
\* returned and the next call to return is getTable(t), that getTable
\* returns d, whether the redis.set of the write and the redis.get of the
\* read resolved or were rejected.
C30_ReadYourWrites ==
    [][(ret.op = "setTable" /\ ret'.op = "getTable" /\ ret'.arg = ret.arg)
          => ret'.report = ret.report
      ]_vars

====
